---- MODULE Spec2Model ----
(***************************************************************************)
(* Model of the fal.ai image generation pipe                               *)
(* (src/functions/pipes/fal-ai-image-generation-pipe.py): the prompt tag   *)
(* parser parse_prompt_tags, the value conversion _convert_tag_value and   *)
(* the aspect ratio derivation _convert_aspect_ratio.                      *)
(*                                                                         *)
(* A prompt is a sequence of characters.  A character is a one-character   *)
(* string, except the em dash (U+2014), which is written EM.               *)
(***************************************************************************)
EXTENDS Integers, Sequences, FiniteSets, TLC

VARIABLES
    vocab,           \* which set of pieces the prompt is typed from
    prompt,          \* the prompt handed to parse_prompt_tags
    model_config,    \* the id of the MODELS entry handed to parse_prompt_tags
    WIDTH,           \* valves.WIDTH
    HEIGHT,          \* valves.HEIGHT
    pc,              \* "typing", "returned" or "raised"
    cleaned_prompt,  \* first component of the returned tuple
    overrides,       \* second component of the returned tuple
    typed,           \* how many pieces the prompt was typed from
    request_model_id,       \* body["model"] of the request to pipe
    FAL_KEY,                \* valves.FAL_KEY
    ENABLE_SAFETY_CHECKER,  \* valves.ENABLE_SAFETY_CHECKER
    ASPECT_RATIO,           \* valves.ASPECT_RATIO
    emitter,         \* self.emitter
    api_model_id,    \* the path pipe routes the request to
    warned,          \* how many warnings pipe has emitted
    arguments,       \* the arguments pipe constructs
    events,          \* the status events handed to the emitter
    submitted,       \* the calls of fal_client.submit
    yielded,         \* what pipe has yielded
    messages,        \* body["messages"] of the request to pipe
    event_emitter,   \* the __event_emitter__ handed to pipe
    other,           \* another call of pipe on the same Pipe
    python_files,         \* deploy_all: the files of the functions directory
    host,                 \* the ids of the functions on the host
    existing_functions,   \* deploy_all: what get_existing_functions returned
    stats,                \* deploy_all: stats
    posted,               \* the create and update requests sent to the host
    processed             \* deploy_all: how many files the loop has been through

\* the valves
valves == <<WIDTH, HEIGHT, FAL_KEY, ENABLE_SAFETY_CHECKER, ASPECT_RATIO>>

\* the state of a call of pipe
pipe_vars ==
    <<emitter, api_model_id, warned, arguments, events, submitted, yielded,
      messages, event_emitter, other>>

\* the state of a run of deploy.py and of its host
deploy_vars == <<python_files, host, existing_functions, stats, posted, processed>>

vars ==
    <<vocab, prompt, model_config, pc, cleaned_prompt, overrides, typed,
      request_model_id, valves, pipe_vars, deploy_vars>>

---------------------------------------------------------------------------
(* Characters and the character classes of Python's re module.             *)

EM == "EM"
NL == "\n"
SP == " "

LowerSeq ==
    <<"a", "b", "c", "d", "e", "f", "g", "h", "i", "j", "k", "l", "m",
      "n", "o", "p", "q", "r", "s", "t", "u", "v", "w", "x", "y", "z">>
UpperSeq ==
    <<"A", "B", "C", "D", "E", "F", "G", "H", "I", "J", "K", "L", "M",
      "N", "O", "P", "Q", "R", "S", "T", "U", "V", "W", "X", "Y", "Z">>
DigitSeq == <<"0", "1", "2", "3", "4", "5", "6", "7", "8", "9">>

Range(f) == {f[i] : i \in DOMAIN f}

LowerLetters == Range(LowerSeq)
UpperLetters == Range(UpperSeq)
DigitChars == Range(DigitSeq)

\* \w
IsWord(c) == c \in LowerLetters \cup UpperLetters \cup DigitChars \cup {"_"}
\* \s
IsSpace(c) == c \in {SP, NL, "\t"}
\* [\-EM]
IsDash(c) == c \in {"-", EM}

\* s[a..b-1]
Slice(s, a, b) == [i \in 1..(b - a) |-> s[a + i - 1]]

---------------------------------------------------------------------------
(* tag_pattern:                                                            *)
(*   (?:--|EM)(\w+)(?:\s+([^\s\-EM][^\-EM]*?))?(?=\s+(?:--|EM)|$)          *)

\* (?:--|EM) at position i
IsMarkerAt(s, i) ==
    \/ i + 1 <= Len(s) /\ s[i] = "-" /\ s[i + 1] = "-"
    \/ i <= Len(s) /\ s[i] = EM

MarkerLen(s, i) == IF s[i] = EM THEN 1 ELSE 2

\* $ without re.MULTILINE: the end of the string, or just before a newline
\* that ends the string
EndAnchor(s, p) == p = Len(s) + 1 \/ (p = Len(s) /\ s[p] = NL)

\* (?=\s+(?:--|EM)|$) at position p
Lookahead(s, p) ==
    \/ \E q \in (p + 1)..Len(s) :
          /\ \A r \in p..(q - 1) : IsSpace(s[r])
          /\ IsMarkerAt(s, q)
    \/ EndAnchor(s, p)

\* the position after the longest run of \w from j
RECURSIVE WordRun(_, _)
WordRun(s, j) == IF j <= Len(s) /\ IsWord(s[j]) THEN WordRun(s, j + 1) ELSE j

\* the position after the longest run of \s from j
RECURSIVE SpaceRun(_, _)
SpaceRun(s, j) == IF j <= Len(s) /\ IsSpace(s[j]) THEN SpaceRun(s, j + 1) ELSE j

\* [^\-EM]*? followed by the lookahead, from position e: the lazy star takes
\* the fewest characters; 0 when no end is found
RECURSIVE LazyValueEnd(_, _)
LazyValueEnd(s, e) ==
    IF Lookahead(s, e) THEN e
    ELSE IF e <= Len(s) /\ ~IsDash(s[e]) THEN LazyValueEnd(s, e + 1)
    ELSE 0

NoValue == [found |-> FALSE, value_start |-> 0, end |-> 0]

\* (?:\s+([^\s\-EM][^\-EM]*?)) after a name ending before k: \s+ is greedy
\* and gives characters back one at a time, m is where the value would start
\* and e where LazyValueEnd ends it
RECURSIVE TryValue(_, _, _)
ValueOrRetry(s, k, m, e) ==
    IF e # 0 THEN [found |-> TRUE, value_start |-> m, end |-> e]
    ELSE TryValue(s, k, m - 1)

TryValue(s, k, m) ==
    IF m <= k THEN NoValue
    ELSE IF m <= Len(s) /\ ~IsSpace(s[m]) /\ ~IsDash(s[m])
    THEN ValueOrRetry(s, k, m, LazyValueEnd(s, m + 1))
    ELSE TryValue(s, k, m - 1)

NoMatch ==
    [found |-> FALSE, start |-> 0, end |-> 0, name |-> <<>>,
     has_value |-> FALSE, value |-> <<>>]

\* (\w+) is greedy and gives characters back one at a time: the name is
\* s[j..k-1]; the optional group, v, is tried before it is skipped
RECURSIVE TryName(_, _, _, _)
NameThenValue(s, i, j, k, v) ==
    IF v.found
    THEN [found |-> TRUE, start |-> i, end |-> v.end,
          name |-> Slice(s, j, k), has_value |-> TRUE,
          value |-> Slice(s, v.value_start, v.end)]
    ELSE IF Lookahead(s, k)
    THEN [found |-> TRUE, start |-> i, end |-> k,
          name |-> Slice(s, j, k), has_value |-> FALSE, value |-> <<>>]
    ELSE TryName(s, i, j, k - 1)

TryName(s, i, j, k) ==
    IF k <= j THEN NoMatch
    ELSE NameThenValue(s, i, j, k, TryValue(s, k, SpaceRun(s, k)))

\* re.match(tag_pattern, s, pos=i): group(1) is name, group(2) is value
\* (None when has_value is FALSE)
MatchAt(s, i) ==
    IF IsMarkerAt(s, i)
    THEN LET j == i + MarkerLen(s, i) IN TryName(s, i, j, WordRun(s, j))
    ELSE NoMatch

\* list(re.finditer(tag_pattern, s)) from position pos: leftmost match first,
\* the scan resumes where a match ended; m is the attempt at pos
RECURSIVE FindIter(_, _)
FindNext(s, pos, m) ==
    IF m.found THEN <<m>> \o FindIter(s, m.end) ELSE FindIter(s, pos + 1)

FindIter(s, pos) ==
    IF pos > Len(s) THEN <<>> ELSE FindNext(s, pos, MatchAt(s, pos))

\* re.sub(tag_pattern, "", s) from position pos; m is the attempt at pos
RECURSIVE RemoveTags(_, _)
RemoveNext(s, pos, m) ==
    IF m.found THEN RemoveTags(s, m.end)
    ELSE <<s[pos]>> \o RemoveTags(s, pos + 1)

RemoveTags(s, pos) ==
    IF pos > Len(s) THEN <<>> ELSE RemoveNext(s, pos, MatchAt(s, pos))

\* the text from position pos with its whitespace left as it is
CollapseSpacesNot(s, pos) == SubSeq(s, pos, Len(s))

\* re.sub(r"\s+", " ", s) from position pos
RECURSIVE CollapseSpaces(_, _)
CollapseSpaces(s, pos) ==
    IF pos > Len(s) THEN <<>>
    ELSE IF IsSpace(s[pos]) THEN <<SP>> \o CollapseSpaces(s, SpaceRun(s, pos))
    ELSE <<s[pos]>> \o CollapseSpaces(s, pos + 1)

\* str.strip()
RECURSIVE LStrip(_)
LStrip(s) == IF s # <<>> /\ IsSpace(s[1]) THEN LStrip(Tail(s)) ELSE s
RECURSIVE RStrip(_)
RStrip(s) ==
    IF s # <<>> /\ IsSpace(s[Len(s)]) THEN RStrip(SubSeq(s, 1, Len(s) - 1)) ELSE s
Strip(s) == RStrip(LStrip(s))

\* lines 280-283: the tags removed, whitespace collapsed and trimmed
CleanPrompt(s) == Strip(CollapseSpaces(RemoveTags(s, 1), 1))

---------------------------------------------------------------------------
(* Python floats (IEEE 754 binary64), as far as _convert_aspect_ratio uses *)
(* them.  A positive float is [m |-> bits, e |-> exponent]: the 53 bits of *)
(* its significand, most significant first (m[1] = 1), times 2^e.  Zero is *)
(* [m |-> <<>>, e |-> 0].  Every operation rounds to nearest, ties to even.*)
(* Wide numbers are held in limbs of LimbBits bits, most significant       *)
(* first, so that no intermediate value leaves the machine integers.       *)

MantissaBits == 53

LimbBits == 14
LimbBase == 2 ^ LimbBits
Limbs == 4

FloatZero == [m |-> <<>>, e |-> 0]

RECURSIVE BitsOfNat(_)
BitsOfNat(n) == IF n = 0 THEN <<>> ELSE Append(BitsOfNat(n \div 2), n % 2)

RECURSIVE NatOfBits(_)
NatOfBits(bits) ==
    IF bits = <<>> THEN 0
    ELSE 2 * NatOfBits(SubSeq(bits, 1, Len(bits) - 1)) + bits[Len(bits)]

PadLeft(bits, width) == [i \in 1..(width - Len(bits)) |-> 0] \o bits

\* without its leading zeros
StripZeros(bits) ==
    IF \A i \in 1..Len(bits) : bits[i] = 0 THEN <<>>
    ELSE LET first == CHOOSE i \in 1..Len(bits) :
                          bits[i] = 1 /\ \A j \in 1..(i - 1) : bits[j] = 0
         IN SubSeq(bits, first, Len(bits))

\* a number of at most Limbs * LimbBits bits as limbs, and back
LimbsOfBits(bits) ==
    LET padded == PadLeft(bits, Limbs * LimbBits) IN
    [k \in 1..Limbs |->
        NatOfBits(SubSeq(padded, (k - 1) * LimbBits + 1, k * LimbBits))]

BitsOfLimbs(limbs) ==
    [i \in 1..(Len(limbs) * LimbBits) |->
        ((limbs[((i - 1) \div LimbBits) + 1]
            \div (2 ^ (LimbBits - 1 - ((i - 1) % LimbBits)))) % 2)]

\* bits + 1, one bit longer when every bit is 1
IncrementBits(bits) ==
    IF \A i \in 1..Len(bits) : bits[i] = 1
    THEN <<1>> \o [i \in 1..Len(bits) |-> 0]
    ELSE LET last == CHOOSE i \in 1..Len(bits) :
                         bits[i] = 0 /\ \A j \in (i + 1)..Len(bits) : bits[j] = 1
         IN [i \in 1..Len(bits) |->
                IF i < last THEN bits[i] ELSE IF i = last THEN 1 ELSE 0]

\* a significand of MantissaBits bits rounded up or kept; a carry out of the
\* top bit renormalises
RoundUp(bits, e, up) ==
    IF ~up THEN [m |-> bits, e |-> e]
    ELSE LET inc == IncrementBits(bits) IN
         IF Len(inc) > MantissaBits
         THEN [m |-> SubSeq(inc, 1, MantissaBits), e |-> e + 1]
         ELSE [m |-> inc, e |-> e]

\* an exact positive value bits * 2^e (bits[1] = 1) rounded to a float
RoundBits(bits, e) ==
    IF Len(bits) <= MantissaBits
    THEN [m |-> bits \o [i \in 1..(MantissaBits - Len(bits)) |-> 0],
          e |-> e - (MantissaBits - Len(bits))]
    ELSE LET kept == SubSeq(bits, 1, MantissaBits)
             guard == bits[MantissaBits + 1]
             sticky == \E i \in (MantissaBits + 2)..Len(bits) : bits[i] = 1
         IN RoundUp(kept, e + (Len(bits) - MantissaBits),
                    guard = 1 /\ (sticky \/ kept[MantissaBits] = 1))

\* the state of a long division: the remainder r, the quotient bits so far
\* and the exponent e of the last of them
DivideState(done, r, bits, e) == [done |-> done, r |-> r, bits |-> bits, e |-> e]

DivideDone(st, q) == DivideState(TRUE, st.r, q.m, q.e)

\* the quotient with one more bit; leading zeros are not kept
DivideMore(st, bit, rest) ==
    DivideState(FALSE, rest,
                IF st.bits = <<>> /\ bit = 0 THEN st.bits ELSE Append(st.bits, bit),
                st.e - 1)

FloatOf(st) == [m |-> st.bits, e |-> st.e]

\* one step of the long division r / b (r < b): the next quotient bit; when
\* the significand is full the remainder decides the rounding
DivideStep(st, b) ==
    IF st.done THEN st
    ELSE IF Len(st.bits) = MantissaBits
    THEN DivideDone(st, RoundUp(st.bits, st.e,
                        2 * st.r > b \/ (2 * st.r = b /\ st.bits[MantissaBits] = 1)))
    ELSE IF 2 * st.r >= b THEN DivideMore(st, 1, 2 * st.r - b)
    ELSE DivideMore(st, 0, 2 * st.r)

RECURSIVE DivideSteps(_, _)
DivideSteps(st, b) ==
    IF st.done THEN st
    ELSE DivideSteps(
             DivideStep(DivideStep(DivideStep(DivideStep(st, b), b), b), b), b)

\* int / int (true division of two small non-negative ints, b > 0)
IntTrueDiv(a, b) ==
    IF a = 0 THEN FloatZero
    ELSE FloatOf(DivideSteps(DivideState(FALSE, a % b, BitsOfNat(a \div b), 0), b))

\* n * limbs from limb k down to 1, with the carry from the right
RECURSIVE LimbsTimes(_, _, _, _)
LimbsTimes(n, limbs, k, carry) ==
    IF k = 0 THEN <<carry>>
    ELSE LET t == n * limbs[k] + carry IN
         Append(LimbsTimes(n, limbs, k - 1, t \div LimbBase), t % LimbBase)

\* int * float (0 < n < LimbBase, x > 0)
IntTimesFloat(n, x) ==
    RoundBits(
        StripZeros(BitsOfLimbs(LimbsTimes(n, LimbsOfBits(x.m), Limbs, 0))),
        x.e)

\* a >= b, limb by limb from limb k
RECURSIVE LimbsGeq(_, _, _)
LimbsGeq(a, b, k) ==
    IF k > Len(a) THEN TRUE
    ELSE IF a[k] # b[k] THEN a[k] > b[k]
    ELSE LimbsGeq(a, b, k + 1)

\* a - b (a >= b) from limb k down to 1, with the borrow from the right
RECURSIVE LimbsMinus(_, _, _, _)
LimbsMinus(a, b, k, borrow) ==
    IF k = 0 THEN <<>>
    ELSE LET t == a[k] - b[k] - borrow IN
         Append(LimbsMinus(a, b, k - 1, IF t < 0 THEN 1 ELSE 0),
                (t + LimbBase) % LimbBase)

\* 2 * a (the top bit of a is 0)
LimbsDouble(a) ==
    [k \in 1..Len(a) |->
        ((2 * a[k]) % LimbBase)
        + (IF k < Len(a) THEN a[k + 1] \div (LimbBase \div 2) ELSE 0)]

LimbsZero(a) == \A k \in 1..Len(a) : a[k] = 0

\* one step of the long division r / d of wide numbers (r < 2 * d), rest is
\* r less d when the next bit is 1
BigDivideBit(st, bit, rest) ==
    IF Len(st.bits) = MantissaBits
    THEN DivideDone(st, RoundUp(st.bits, st.e + 1,
                        bit = 1 /\ (~LimbsZero(rest) \/ st.bits[MantissaBits] = 1)))
    ELSE DivideMore(st, bit, LimbsDouble(rest))

BigDivideStep(st, d) ==
    IF st.done THEN st
    ELSE IF LimbsGeq(st.r, d, 1)
    THEN BigDivideBit(st, 1, LimbsMinus(st.r, d, Len(d), 0))
    ELSE BigDivideBit(st, 0, st.r)

RECURSIVE BigDivideSteps(_, _)
BigDivideSteps(st, d) ==
    IF st.done THEN st
    ELSE BigDivideSteps(
             BigDivideStep(BigDivideStep(BigDivideStep(BigDivideStep(st, d), d), d), d),
             d)

\* q * 2^(-by)
Scaled(q, by) == [m |-> q.m, e |-> q.e - by]

\* n with zeros appended to MantissaBits bits
ScaledBits(nbits) == nbits \o [i \in 1..(MantissaBits - Len(nbits)) |-> 0]

\* int / float (n > 0, x > 0): n / (x.m * 2^x.e), with n first scaled by a
\* power of two to the width of x.m
IntOverFloat(n, x) ==
    Scaled(FloatOf(BigDivideSteps(
                       DivideState(FALSE, LimbsOfBits(ScaledBits(BitsOfNat(n))),
                                   <<>>, 0),
                       LimbsOfBits(x.m))),
           (MantissaBits - Len(BitsOfNat(n))) + x.e)

\* a >= b for bit strings of one length
BitsGeq(a, b) ==
    \/ a = b
    \/ LET first == CHOOSE i \in 1..Len(a) :
                        a[i] # b[i] /\ \A j \in 1..(i - 1) : a[j] = b[j]
       IN a[first] > b[first]

\* x > y
FloatGreater(x, y) ==
    IF x.m = <<>> THEN FALSE
    ELSE IF y.m = <<>> THEN TRUE
    ELSE IF x.e # y.e THEN x.e > y.e
    ELSE x.m # y.m /\ BitsGeq(x.m, y.m)

\* int(x): truncation toward zero (x >= 0 below 2^31)
FloatToInt(x) ==
    IF x.m = <<>> \/ x.e <= 0 - MantissaBits THEN 0
    ELSE IF x.e >= 0 THEN NatOfBits(x.m \o [i \in 1..x.e |-> 0])
    ELSE NatOfBits(SubSeq(x.m, 1, MantissaBits + x.e))

---------------------------------------------------------------------------
(* Python values.  Every value is a record of one shape, kind tells which  *)
(* fields carry it: "bool" b; "int" n; "float" n * 10^e, or s for inf and  *)
(* nan; "str" s; "size" the dict {"width", "height"}; "list" list.         *)

Value(kind, b, n, e, s, width, height, list) ==
    [kind |-> kind, b |-> b, n |-> n, e |-> e, s |-> s,
     width |-> width, height |-> height, list |-> list]

BoolValue(b) == Value("bool", b, 0, 0, <<>>, 0, 0, <<>>)
IntValue(n) == Value("int", FALSE, n, 0, <<>>, 0, 0, <<>>)
FloatValue(n, e, s) == Value("float", FALSE, n, e, s, 0, 0, <<>>)
StrValue(s) == Value("str", FALSE, 0, 0, s, 0, 0, <<>>)
SizeValue(w, h) == Value("size", FALSE, 0, 0, <<>>, w, h, <<>>)
ListValue(list) == Value("list", FALSE, 0, 0, <<>>, 0, 0, list)
None == Value("None", FALSE, 0, 0, <<>>, 0, 0, <<>>)

\* what a call does: it returns a value, or raises an exception with a message
Returns(v) == [outcome |-> "returns", value |-> v, message |-> <<>>]
Raises(exception, message) ==
    [outcome |-> exception, value |-> None, message |-> message]

\* an f-string: the fixed text, the tag name and the value it quotes
Message(text, tag_name, value) ==
    [text |-> text, tag |-> tag_name, value |-> value]

\* str.lower()
LowerChar(c) ==
    IF c \in UpperLetters
    THEN LowerSeq[CHOOSE i \in DOMAIN UpperSeq : UpperSeq[i] = c]
    ELSE c
Lower(s) == [i \in 1..Len(s) |-> LowerChar(s[i])]

DigitValue(c) == (CHOOSE i \in DOMAIN DigitSeq : DigitSeq[i] = c) - 1

RECURSIVE DigitsValue(_)
DigitsValue(s) ==
    IF s = <<>> THEN 0
    ELSE 10 * DigitsValue(SubSeq(s, 1, Len(s) - 1)) + DigitValue(s[Len(s)])

WithoutUnderscores(s) == SelectSeq(s, LAMBDA c : c # "_")

\* the digits of a Python numeric literal: digits, single underscores
\* allowed between two digits
IsDigitPart(s) ==
    /\ s # <<>>
    /\ \A i \in 1..Len(s) : s[i] \in DigitChars \cup {"_"}
    /\ s[1] # "_" /\ s[Len(s)] # "_"
    /\ \A i \in 1..(Len(s) - 1) : ~(s[i] = "_" /\ s[i + 1] = "_")

IsSign(c) == c \in {"+", "-"}

Unsigned(s) == IF s # <<>> /\ IsSign(s[1]) THEN Tail(s) ELSE s
SignOf(s) == IF s # <<>> /\ s[1] = "-" THEN 0 - 1 ELSE 1

\* int(s) for a stripped s
PyInt(s) ==
    IF IsDigitPart(Unsigned(s))
    THEN Returns(IntValue(SignOf(s) * DigitsValue(WithoutUnderscores(Unsigned(s)))))
    ELSE Raises("ValueError", <<>>)

\* the first position of character c in s, 0 when absent
IndexOf(s, c) ==
    IF \E i \in 1..Len(s) : s[i] = c
    THEN CHOOSE i \in 1..Len(s) : s[i] = c /\ \A j \in 1..(i - 1) : s[j] # c
    ELSE 0

\* s before position at (all of s when at = 0), and s after it
Before(s, at) == IF at = 0 THEN s ELSE SubSeq(s, 1, at - 1)
After(s, at) == IF at = 0 THEN <<>> ELSE SubSeq(s, at + 1, Len(s))

\* a float literal in its parts: digits [. [digits]] [e [sign] digits], with
\* at least one digit before the exponent
FloatOfParts(sign, whole, frac, has_exponent, exponent) ==
    IF /\ whole = <<>> \/ IsDigitPart(whole)
       /\ frac = <<>> \/ IsDigitPart(frac)
       /\ whole # <<>> \/ frac # <<>>
       /\ ~has_exponent \/ IsDigitPart(Unsigned(exponent))
    THEN Returns(FloatValue(
             sign * DigitsValue(WithoutUnderscores(whole \o frac)),
             (IF has_exponent
              THEN SignOf(exponent) * DigitsValue(WithoutUnderscores(Unsigned(exponent)))
              ELSE 0)
             - Len(WithoutUnderscores(frac)),
             <<>>))
    ELSE Raises("ValueError", <<>>)

FloatOfMantissa(sign, mantissa, has_exponent, exponent) ==
    FloatOfParts(sign, Before(mantissa, IndexOf(mantissa, ".")),
                 After(mantissa, IndexOf(mantissa, ".")), has_exponent, exponent)

FloatOfLiteral(sign, low) ==
    IF low \in {<<"i", "n", "f">>, <<"n", "a", "n">>,
                <<"i", "n", "f", "i", "n", "i", "t", "y">>}
    THEN Returns(FloatValue(sign, 0, low))
    ELSE FloatOfMantissa(sign, Before(low, IndexOf(low, "e")),
                         IndexOf(low, "e") # 0, After(low, IndexOf(low, "e")))

\* float(s) for a stripped s: [sign] (inf | infinity | nan), or a literal
PyFloat(s) == FloatOfLiteral(SignOf(s), Lower(Unsigned(s)))

---------------------------------------------------------------------------
(* _convert_aspect_ratio, lines 356-408                                    *)

\* lines 399-408
SizeForRatio(ratio_value, base_ratio, base_width, base_height) ==
    IF FloatGreater(ratio_value, base_ratio)
    THEN SizeValue(FloatToInt(IntTimesFloat(base_height, ratio_value)), base_height)
    ELSE SizeValue(base_width, FloatToInt(IntOverFloat(base_width, ratio_value)))

\* lines 396-408: the size for a ratio of positive ints
AspectSize(width_ratio, height_ratio, base_width, base_height) ==
    SizeForRatio(IntTrueDiv(width_ratio, height_ratio),
                 IntTrueDiv(base_width, base_height), base_width, base_height)

IsDigits(x) == x # <<>> /\ \A i \in 1..Len(x) : x[i] \in DigitChars

\* lines 374-408 without the check of lines 383-386: a zero component
\* reaches the divisions of lines 396 and 406
RatioOfPartsUnchecked(ratio_str, tag_name, has_colon, left, right, base_width, base_height) ==
    IF ~(has_colon /\ IsDigits(left) /\ IsDigits(right))
    THEN Raises("ValueError",
                Message("Invalid aspect ratio, expected format like '16:9'",
                        tag_name, ratio_str))
    ELSE IF DigitsValue(left) = 0 \/ DigitsValue(right) = 0 \/ base_height = 0
    THEN Raises("ZeroDivisionError", <<>>)
    ELSE Returns(AspectSize(DigitsValue(left), DigitsValue(right),
                            base_width, base_height))

\* lines 374-408, with the text on each side of the first colon of the
\* stripped ratio_str
RatioOfParts(ratio_str, tag_name, has_colon, left, right, base_width, base_height) ==
    \* re.match(r"^(\d+):(\d+)$", ratio_str.strip())
    IF ~(has_colon /\ IsDigits(left) /\ IsDigits(right))
    THEN Raises("ValueError",
                Message("Invalid aspect ratio, expected format like '16:9'",
                        tag_name, ratio_str))
    ELSE IF DigitsValue(left) <= 0 \/ DigitsValue(right) <= 0
    THEN Raises("ValueError", Message("Invalid aspect ratio", tag_name, ratio_str))
    \* line 397: base_width / base_height
    ELSE IF base_height = 0
    THEN Raises("ZeroDivisionError", <<>>)
    ELSE Returns(AspectSize(DigitsValue(left), DigitsValue(right),
                            base_width, base_height))

ConvertAspectRatio(ratio_str, tag_name, base_width, base_height) ==
    RatioOfParts(ratio_str, tag_name,
                 IndexOf(Strip(ratio_str), ":") # 0,
                 Before(Strip(ratio_str), IndexOf(Strip(ratio_str), ":")),
                 After(Strip(ratio_str), IndexOf(Strip(ratio_str), ":")),
                 base_width, base_height)

---------------------------------------------------------------------------
(* _convert_tag_value, lines 291-353.  tag_value is a match's value group: *)
(* has_value is FALSE when the group is None.                              *)

\* try: return <converted> except ValueError: raise ValueError(message)
OrInvalid(converted, message) ==
    IF converted.outcome = "returns" THEN converted
    ELSE Raises("ValueError", message)

\* the comparison of lines 314-322 without the lower() of line 314
ConvertBooleanCaseSensitive(tag_name, tag_value, tag_value_lower) ==
    IF Strip(tag_value) \in {<<"t", "r", "u", "e">>, <<"1">>, <<"y", "e", "s">>}
    THEN Returns(BoolValue(TRUE))
    ELSE IF Strip(tag_value) \in {<<"f", "a", "l", "s", "e">>, <<"0">>, <<"n", "o">>}
    THEN Returns(BoolValue(FALSE))
    ELSE Raises("ValueError", Message("Invalid boolean value", tag_name, tag_value))

\* lines 314-322: the comparison with the lowered, stripped value
ConvertBoolean(tag_name, tag_value, tag_value_lower) ==
    IF tag_value_lower \in {<<"t", "r", "u", "e">>, <<"1">>, <<"y", "e", "s">>}
    THEN Returns(BoolValue(TRUE))
    ELSE IF tag_value_lower \in {<<"f", "a", "l", "s", "e">>, <<"0">>, <<"n", "o">>}
    THEN Returns(BoolValue(FALSE))
    ELSE Raises("ValueError", Message("Invalid boolean value", tag_name, tag_value))

\* lines 328-353, tag_value stripped
ConvertStripped(tag_name, tag_value, parameter_name, base_width, base_height) ==
    IF parameter_name = "image_size"
    THEN ConvertAspectRatio(tag_value, tag_name, base_width, base_height)
    ELSE IF parameter_name \in {"num_inference_steps", "num_images", "seed"}
    THEN OrInvalid(PyInt(tag_value),
                   Message("Invalid integer value", tag_name, tag_value))
    ELSE IF parameter_name = "guidance_scale"
    THEN OrInvalid(PyFloat(tag_value),
                   Message("Invalid float value", tag_name, tag_value))
    ELSE Returns(StrValue(tag_value))

ConvertTagValue(tag_name, has_value, tag_value, parameter_name, base_width, base_height) ==
    IF parameter_name \in {"enable_safety_checker", "enhance_prompt"}
    THEN IF ~has_value THEN Returns(BoolValue(TRUE))
         ELSE ConvertBoolean(tag_name, tag_value, Lower(Strip(tag_value)))
    ELSE IF ~has_value
    THEN Raises("ValueError", Message("Tag requires a value", tag_name, <<>>))
    ELSE ConvertStripped(tag_name, Strip(tag_value), parameter_name,
                         base_width, base_height)

---------------------------------------------------------------------------
(* MODELS, lines 47-219: the parse_tags of each model                      *)

TagRule(tag, parameter) == [tag |-> tag, parameter |-> parameter]

CommonParseTags ==
    << TagRule(<<"a", "r">>, "image_size"),
       TagRule(<<"s", "t", "e", "p", "s">>, "num_inference_steps"),
       TagRule(<<"s", "e", "e", "d">>, "seed"),
       TagRule(<<"g", "u", "i", "d", "e">>, "guidance_scale"),
       TagRule(<<"r", "e", "p", "e", "a", "t">>, "num_images"),
       TagRule(<<"s", "a", "f", "e">>, "enable_safety_checker"),
       TagRule(<<"f", "o", "r", "m", "a", "t">>, "output_format"),
       TagRule(<<"s", "p", "e", "e", "d">>, "acceleration") >>

KontextParseTags ==
    Append(CommonParseTags,
           TagRule(<<"e", "n", "h", "a", "n", "c", "e">>, "enhance_prompt"))

Model(id, path, parse_tags) == [id |-> id, path |-> path, parse_tags |-> parse_tags]

MODELS ==
    << Model("falai-flux-1-dev", "fal-ai/flux-1/dev", CommonParseTags),
       Model("falai-flux-kontext-dev", "fal-ai/flux-kontext/dev", KontextParseTags),
       Model("falai-flux-pro", "fal-ai/flux-pro/v1.1", CommonParseTags),
       Model("falai-flux-pro-kontext", "fal-ai/flux-pro/kontext", CommonParseTags),
       Model("falai-flux-2", "fal-ai/flux-2", CommonParseTags),
       Model("falai-flux-2-flex", "fal-ai/flux-2-flex", CommonParseTags),
       Model("falai-flux-2-pro", "fal-ai/flux-2-pro", CommonParseTags),
       Model("falai-flux-2-klein-4b", "fal-ai/flux-2/klein/4b", CommonParseTags),
       Model("falai-nano-banana-pro", "fal-ai/nano-banana-pro", CommonParseTags),
       Model("falai-z-image-turbo", "fal-ai/z-image/turbo", CommonParseTags) >>

\* a parser that takes the tag rules of one model for every model
ParseTagsConfigOfAnyModel(id) == KontextParseTags

\* model_config.get("parse_tags", []) of the MODELS entry with this id; a
\* model_config that is no entry of MODELS has no parse_tags
ParseTagsConfig(id) ==
    IF \E i \in DOMAIN MODELS : MODELS[i].id = id
    THEN MODELS[CHOOSE i \in DOMAIN MODELS : MODELS[i].id = id].parse_tags
    ELSE <<>>

\* tag_map, line 250: a later item with the same tag replaces an earlier one
TagMapHas(config, tag_name) == \E i \in DOMAIN config : config[i].tag = tag_name
TagMapGet(config, tag_name) ==
    config[CHOOSE i \in DOMAIN config :
              /\ config[i].tag = tag_name
              /\ \A j \in (i + 1)..Len(config) : config[j].tag # tag_name].parameter

---------------------------------------------------------------------------
(* parse_prompt_tags, lines 222-288                                        *)

EmptyDict == [k \in {} |-> None]

\* d.setdefault(key, value): the first value of a key stays
DictSetDefault(d, key, value) ==
    [k \in DOMAIN d \cup {key} |-> IF k \in DOMAIN d THEN d[k] ELSE value]

\* d[key] = value
DictSet(d, key, value) ==
    [k \in DOMAIN d \cup {key} |-> IF k = key THEN value ELSE d[k]]

\* del d[key] that deletes nothing
DictDelNothing(d, key) == d

\* del d[key]
DictDel(d, key) == [k \in DOMAIN d \ {key} |-> d[k]]

\* the state of the loop over the matches: the overrides, the warnings and
\* the exception that left the loop, if any
LoopState(overrides_, warnings, raised) ==
    [overrides |-> overrides_, warnings |-> warnings, raised |-> raised]

\* lines 271-278: the try block around the conversion
StoreOrWarn(st, parameter_name, converted) ==
    IF converted.outcome = "returns"
    THEN LoopState(DictSet(st.overrides, parameter_name, converted.value),
                   st.warnings, st.raised)
    ELSE IF converted.outcome = "ValueError"
    THEN LoopState(st.overrides, Append(st.warnings, converted.message), st.raised)
    ELSE LoopState(st.overrides, st.warnings, converted.outcome)

\* lines 268-278, for a tag the model knows
ProcessKnown(st, match, parameter_name, base_width, base_height) ==
    StoreOrWarn(st, parameter_name,
                ConvertTagValue(match.name, match.has_value, match.value,
                                parameter_name, base_width, base_height))

\* lines 259-278 with break in the place of continue: the loop ends at
\* the first tag it refuses
ProcessMatchOrBreak(st, match, config, base_width, base_height) ==
    IF st.raised # "none" \/ st.warnings # <<>> THEN st
    ELSE IF ~TagMapHas(config, match.name)
    THEN LoopState(st.overrides,
                   Append(st.warnings, Message("Unknown tag ignored", match.name, <<>>)),
                   st.raised)
    ELSE ProcessKnown(st, match, TagMapGet(config, match.name),
                      base_width, base_height)

\* lines 259-278, one match
ProcessMatch(st, match, config, base_width, base_height) ==
    IF st.raised # "none" THEN st
    ELSE IF ~TagMapHas(config, match.name)
    THEN LoopState(st.overrides,
                   Append(st.warnings, Message("Unknown tag ignored", match.name, <<>>)),
                   st.raised)
    ELSE ProcessKnown(st, match, TagMapGet(config, match.name),
                      base_width, base_height)

\* the for loop over matches[i..]
RECURSIVE ProcessMatches(_, _, _, _, _, _)
ProcessMatches(st, matches, i, config, base_width, base_height) ==
    IF i > Len(matches) THEN st
    ELSE ProcessMatches(
             ProcessMatch(st, matches[i], config, base_width, base_height),
             matches, i + 1, config, base_width, base_height)

\* what a call of parse_prompt_tags does: raised is "none" and the tuple is
\* (cleaned_prompt, overrides), or raised names the exception
ParseResult(raised, cleaned, overrides_) ==
    [raised |-> raised, cleaned_prompt |-> cleaned, overrides |-> overrides_]

\* lines 280-288, after the loop ended in st
AfterLoop(p, st) ==
    IF st.raised # "none" THEN ParseResult(st.raised, <<>>, EmptyDict)
    ELSE ParseResult("none", CleanPrompt(p),
                     IF st.warnings # <<>>
                     THEN DictSet(st.overrides, "_warnings", ListValue(st.warnings))
                     ELSE st.overrides)

\* lines 250-288, for a model with parse_tags
ParseWithConfig(p, parse_tags_config, base_width, base_height) ==
    AfterLoop(p, ProcessMatches(LoopState(EmptyDict, <<>>, "none"),
                                FindIter(p, 1), 1, parse_tags_config,
                                base_width, base_height))

\* parse_prompt_tags without the early return of lines 246-247
ParsePromptTagsAlways(p, model_id, base_width, base_height) ==
    ParseWithConfig(p, ParseTagsConfig(model_id), base_width, base_height)

\* parse_prompt_tags(p, model_config, valves)
ParsePromptTags(p, model_id, base_width, base_height) ==
    IF ParseTagsConfig(model_id) = <<>>
    THEN ParseResult("none", p, EmptyDict)
    ELSE ParseWithConfig(p, ParseTagsConfig(model_id), base_width, base_height)

-------------------------------------------------------------------------------------------------------------------------------------------------
(* The state machine: a prompt is typed piece by piece, then handed to     *)
(* parse_prompt_tags with a model and the valves (pipe, lines 647-650).    *)

MaxTokens == 5
MaxNumberPieces == 4
MaxBooleanPieces == 3
MaxRatio == 16
MaxMixedPieces == 4
MaxMarkerPieces == 6
MaxPipePieces == 2
MaxRoutingPieces == 1
MaxFiles == 3

DefaultWidth == 800
DefaultHeight == 1422

\* the pieces a prompt is typed from
Pieces(v) ==
    CASE v = "tokens" ->
           {<<"-">>, <<EM>>, <<SP>>, <<NL>>, <<"x">>, <<"s", "a", "f", "e">>,
            <<"e", "n", "h", "a", "n", "c", "e">>}
      [] v = "numbers" ->
           {<<SP, "-", "-", "s", "t", "e", "p", "s", SP>>,
            <<SP, "-", "-", "s", "e", "e", "d", SP>>,
            <<SP>>, <<"1">>, <<"2">>, <<"a">>, <<"-">>}
      [] v = "booleans" ->
           {<<"-", "-", "s", "a", "f", "e">>,
            <<EM, "e", "n", "h", "a", "n", "c", "e">>,
            <<SP>>, <<"T", "R", "U", "E">>, <<"Y", "e", "s">>, <<"1">>,
            <<"F", "a", "l", "s", "e">>, <<"n", "o">>, <<"0">>,
            <<"m", "a", "y", "b", "e">>}
      [] v = "markers" ->
           {<<"-">>, <<EM>>, <<SP>>, <<"x">>, <<"s", "a", "f", "e">>}
      [] v = "routing" ->
           {<<SP, "-", "-", "x">>, <<"a">>, <<"\"", "t", "a", "g", "s", "\"", ":">>}
      [] v = "pipe" ->
           {<<SP, "-", "-", "x">>, <<SP, "-", "-", "s", "a", "f", "e">>,
            <<SP, "-", "-", "a", "r", SP, "1", ":", "2">>, <<SP, "-", "-", "s", "t", "e", "p", "s", SP, "1">>,
            <<SP, "-", "-", "s", "t", "e", "p", "s", SP, "a">>, <<"a">>,
            <<"\"", "t", "a", "g", "s", "\"", ":">>,
            <<"#", "#", "#", SP, "T", "a", "s", "k", ":", SP, "G", "e", "n", "e", "r", "a", "t", "e", SP>>,
            <<"t", "a", "g", "s">>}
      [] v = "mixed" ->
           {<<SP, "-", "-", "a", "r", SP>>,
            <<SP, "-", "-", "s", "t", "e", "p", "s", SP>>,
            <<SP, "-", "-", "x">>,
            <<"1">>, <<"0">>, <<":">>, <<"a">>}
      [] OTHER -> {}

\* how many pieces a prompt is typed from, at most
MaxPieces(v) ==
    CASE v = "tokens" -> MaxTokens
      [] v = "numbers" -> MaxNumberPieces
      [] v = "booleans" -> MaxBooleanPieces
      [] v = "mixed" -> MaxMixedPieces
      [] v = "pipe" -> MaxPipePieces
      [] v = "routing" -> MaxRoutingPieces
      [] v = "markers" -> MaxMarkerPieces
      [] OTHER -> 0

\* str(n), n >= 0
RECURSIVE DigitsOf(_)
DigitsOf(n) ==
    IF n < 10 THEN <<DigitSeq[n + 1]>>
    ELSE Append(DigitsOf(n \div 10), DigitSeq[(n % 10) + 1])

\* the prompt "--ar rw:rh"
RatioPrompt(rw, rh) ==
    <<"-", "-", "a", "r", SP>> \o DigitsOf(rw) \o <<":">> \o DigitsOf(rh)

\* the user types one more piece of the prompt
Type(piece) ==
    /\ pc = "typing"
    /\ typed < MaxPieces(vocab)
    /\ prompt' = prompt \o piece
    /\ typed' = typed + 1
    /\ UNCHANGED <<vocab, model_config, valves, pc, cleaned_prompt, overrides>>
    /\ UNCHANGED <<request_model_id, pipe_vars, deploy_vars>>

\* the call returns result, or raises
Return(result) ==
    /\ pc' = IF result.raised = "none" THEN "returned" ELSE "raised"
    /\ cleaned_prompt' = result.cleaned_prompt
    /\ overrides' = result.overrides

\* cleaned_prompt, tag_overrides = parse_prompt_tags(prompt, model_config, valves)
Parse ==
    /\ pc = "typing"
    /\ Return(ParsePromptTags(prompt, model_config, WIDTH, HEIGHT))
    /\ UNCHANGED <<vocab, prompt, model_config, valves, typed>>
    /\ UNCHANGED <<request_model_id, pipe_vars, deploy_vars>>

Next ==
    \/ \E piece \in Pieces(vocab) : Type(piece)
    \/ Parse

\* the Pipe as __init__ constructs it, and no call of pipe yet
NotCalled ==
    /\ emitter = "None"
    /\ api_model_id = "None"
    /\ warned = 0
    /\ arguments = EmptyDict
    /\ events = <<>>
    /\ submitted = <<>>
    /\ yielded = <<>>
    /\ messages = <<>>
    /\ event_emitter = "None"
    /\ other = [pc |-> "not called", event_emitter |-> "None"]

\* deploy.py is not run
NotDeploying ==
    /\ python_files = <<>>
    /\ host = {}
    /\ existing_functions = {}
    /\ stats = [total |-> 0, success |-> 0, failed |-> 0]
    /\ posted = <<>>
    /\ processed = 0

\* nothing parsed yet
Unparsed ==
    /\ pc = "typing"
    /\ cleaned_prompt = <<>>
    /\ overrides = EmptyDict
    /\ NotCalled
    /\ NotDeploying

\* nothing typed and nothing parsed yet, and no request to pipe
Blank ==
    /\ prompt = <<>>
    /\ typed = 0
    /\ request_model_id = <<>>
    /\ Unparsed

\* the valves of the generation, other than WIDTH and HEIGHT, as Pipe.Valves
\* constructs them
DefaultSettings ==
    /\ ENABLE_SAFETY_CHECKER = FALSE
    /\ ASPECT_RATIO = <<"9", ":", "1", "6">>

\* the valves as Pipe.Valves constructs them
DefaultValves ==
    /\ WIDTH = DefaultWidth
    /\ HEIGHT = DefaultHeight
    /\ DefaultSettings
    /\ FAL_KEY = ""

\* prompts of markers, names and separators
Init ==
    /\ vocab = "tokens"
    /\ model_config \in {"falai-flux-1-dev", "falai-flux-kontext-dev"}
    /\ DefaultValves
    /\ Blank

Spec == Init /\ [][Next]_vars

\* prompts of integer tags and their values
InitNumbers ==
    /\ vocab = "numbers"
    /\ model_config = "falai-flux-2"
    /\ DefaultValves
    /\ Blank

SpecNumbers == InitNumbers /\ [][Next]_vars

\* prompts of boolean tags and their values
InitBooleans ==
    /\ vocab = "booleans"
    /\ model_config \in {"falai-flux-1-dev", "falai-flux-kontext-dev"}
    /\ DefaultValves
    /\ Blank

SpecBooleans == InitBooleans /\ [][Next]_vars

\* the values an administrator sets the valves to: Valves declares WIDTH
\* and HEIGHT as int, with no constraint
ValveWidths == {DefaultWidth, 1280, 504}
ValveHeights == {0, 720, DefaultHeight, 392}

\* prompts "--ar rw:rh", under every setting of the valves
InitRatios ==
    /\ vocab = "ratios"
    /\ model_config = "falai-flux-1-dev"
    /\ WIDTH \in ValveWidths
    /\ HEIGHT \in ValveHeights
    /\ DefaultSettings
    /\ FAL_KEY = ""
    /\ request_model_id = <<>>
    /\ \E rw \in 1..MaxRatio : \E rh \in 1..MaxRatio : prompt = RatioPrompt(rw, rh)
    /\ typed = 0
    /\ Unparsed

SpecRatios == InitRatios /\ [][Parse]_vars

\* prompts that mix aspect ratio tags, integer tags and an unknown tag,
\* under the default valves and under a HEIGHT of 0
InitMixed ==
    /\ vocab = "mixed"
    /\ model_config = "falai-flux-1-dev"
    /\ WIDTH = DefaultWidth
    /\ HEIGHT \in {0, DefaultHeight}
    /\ DefaultSettings
    /\ FAL_KEY = ""
    /\ Blank

SpecMixed == InitMixed /\ [][Next]_vars

\* prompts of markers, names and separators for a model_config that has
\* no parse_tags (no entry of MODELS is such a model)
InitNoTags ==
    /\ vocab = "tokens"
    /\ model_config = "model-without-parse-tags"
    /\ DefaultValves
    /\ Blank

SpecNoTags == InitNoTags /\ [][Next]_vars

\* longer prompts of markers and names
InitMarkers ==
    /\ vocab = "markers"
    /\ model_config = "falai-flux-1-dev"
    /\ DefaultValves
    /\ Blank

SpecMarkers == InitMarkers /\ [][Next]_vars

---------------------------------------------------------------------------
(* Pipe.pipe: the request is routed to a model, the prompt is parsed, the  *)
(* arguments are constructed and the generation is submitted.              *)

\* overrides["_warnings"], or the empty list
WarningsOf(o) == IF "_warnings" \in DOMAIN o THEN o["_warnings"].list ELSE <<>>

\* the characters of the ids and the paths of MODELS
Text(text) ==
    CASE text = "falai-flux-1-dev" -> <<"f", "a", "l", "a", "i", "-", "f",
             "l", "u", "x", "-", "1", "-", "d", "e", "v">>
      [] text = "falai-flux-kontext-dev" -> <<"f", "a", "l", "a", "i", "-",
             "f", "l", "u", "x", "-", "k", "o", "n", "t", "e", "x", "t", "-",
             "d", "e", "v">>
      [] text = "falai-flux-pro" -> <<"f", "a", "l", "a", "i", "-", "f", "l",
             "u", "x", "-", "p", "r", "o">>
      [] text = "falai-flux-pro-kontext" -> <<"f", "a", "l", "a", "i", "-",
             "f", "l", "u", "x", "-", "p", "r", "o", "-", "k", "o", "n", "t",
             "e", "x", "t">>
      [] text = "falai-flux-2" -> <<"f", "a", "l", "a", "i", "-", "f", "l",
             "u", "x", "-", "2">>
      [] text = "falai-flux-2-flex" -> <<"f", "a", "l", "a", "i", "-", "f",
             "l", "u", "x", "-", "2", "-", "f", "l", "e", "x">>
      [] text = "falai-flux-2-pro" -> <<"f", "a", "l", "a", "i", "-", "f",
             "l", "u", "x", "-", "2", "-", "p", "r", "o">>
      [] text = "falai-flux-2-klein-4b" -> <<"f", "a", "l", "a", "i", "-",
             "f", "l", "u", "x", "-", "2", "-", "k", "l", "e", "i", "n", "-",
             "4", "b">>
      [] text = "falai-nano-banana-pro" -> <<"f", "a", "l", "a", "i", "-",
             "n", "a", "n", "o", "-", "b", "a", "n", "a", "n", "a", "-", "p",
             "r", "o">>
      [] text = "falai-z-image-turbo" -> <<"f", "a", "l", "a", "i", "-", "z",
             "-", "i", "m", "a", "g", "e", "-", "t", "u", "r", "b", "o">>
      [] text = "fal-ai/flux-1/dev" -> <<"f", "a", "l", "-", "a", "i", "/",
             "f", "l", "u", "x", "-", "1", "/", "d", "e", "v">>
      [] text = "fal-ai/flux-kontext/dev" -> <<"f", "a", "l", "-", "a", "i",
             "/", "f", "l", "u", "x", "-", "k", "o", "n", "t", "e", "x", "t",
             "/", "d", "e", "v">>
      [] text = "fal-ai/flux-pro/v1.1" -> <<"f", "a", "l", "-", "a", "i",
             "/", "f", "l", "u", "x", "-", "p", "r", "o", "/", "v", "1", ".",
             "1">>
      [] text = "fal-ai/flux-pro/kontext" -> <<"f", "a", "l", "-", "a", "i",
             "/", "f", "l", "u", "x", "-", "p", "r", "o", "/", "k", "o", "n",
             "t", "e", "x", "t">>
      [] text = "fal-ai/flux-2" -> <<"f", "a", "l", "-", "a", "i", "/", "f",
             "l", "u", "x", "-", "2">>
      [] text = "fal-ai/flux-2-flex" -> <<"f", "a", "l", "-", "a", "i", "/",
             "f", "l", "u", "x", "-", "2", "-", "f", "l", "e", "x">>
      [] text = "fal-ai/flux-2-pro" -> <<"f", "a", "l", "-", "a", "i", "/",
             "f", "l", "u", "x", "-", "2", "-", "p", "r", "o">>
      [] text = "fal-ai/flux-2/klein/4b" -> <<"f", "a", "l", "-", "a", "i",
             "/", "f", "l", "u", "x", "-", "2", "/", "k", "l", "e", "i", "n",
             "/", "4", "b">>
      [] text = "fal-ai/nano-banana-pro" -> <<"f", "a", "l", "-", "a", "i",
             "/", "n", "a", "n", "o", "-", "b", "a", "n", "a", "n", "a", "-",
             "p", "r", "o">>
      [] text = "fal-ai/z-image/turbo" -> <<"f", "a", "l", "-", "a", "i",
             "/", "z", "-", "i", "m", "a", "g", "e", "/", "t", "u", "r", "b",
             "o">>
      [] OTHER -> <<>>

\* a in b, for two str
In(a, b) == \E i \in 0..(Len(b) - Len(a)) : SubSeq(b, i + 1, i + Len(a)) = a

\* the loop over model_map.items() of lines 602-605, from the i-th entry on:
\* the path of the first entry whose id is in the request's model
RECURSIVE ExternalIdFrom(_, _)
ExternalIdFrom(request, i) ==
    IF i > Len(MODELS) THEN "None"
    ELSE IF In(Text(MODELS[i].id), request) THEN MODELS[i].path
    ELSE ExternalIdFrom(request, i + 1)

\* lines 597-605
ApiModelId(request) == ExternalIdFrom(request, 1)

\* the loop of lines 638-641, from the i-th entry on: the id of the first
\* entry of MODELS with this path
RECURSIVE ModelConfigFrom(_, _)
ModelConfigFrom(path, i) ==
    IF i > Len(MODELS) THEN "None"
    ELSE IF MODELS[i].path = path THEN MODELS[i].id
    ELSE ModelConfigFrom(path, i + 1)

\* lines 637-641
ModelConfig(path) == ModelConfigFrom(path, 1)

UserMessage(content) == [role |-> "user", content |-> content]

\* the loops of lines 569-580 and 619-629, from the i-th message down: the
\* content of the last message of the user
RECURSIVE LastUserMessageFrom(_, _)
LastUserMessageFrom(msgs, i) ==
    IF i = 0 THEN <<>>
    ELSE IF msgs[i].role = "user" THEN msgs[i].content
    ELSE LastUserMessageFrom(msgs, i - 1)

LastUserMessage(msgs) == LastUserMessageFrom(msgs, Len(msgs))

\* is_tag_generation_request(user_message)
IsTagGenerationRequest(user_message) ==
    /\ user_message # <<>>
    /\ \/ /\ In(<<"#", "#", "#", SP, "t", "a", "s", "k", ":", SP, "g", "e", "n", "e", "r", "a", "t", "e">>, Lower(user_message))
          /\ In(<<"t", "a", "g", "s">>, Lower(user_message))
       \/ In(<<"\"", "t", "a", "g", "s", "\"", ":">>, user_message)
       \/ In(<<"c", "a", "t", "e", "g", "o", "r", "i", "z", "i", "n", "g", SP, "t", "h", "e", SP, "m", "a", "i", "n", SP, "t", "h", "e", "m", "e", "s">>, Lower(user_message))

NoWarning == Message("", <<>>, <<>>)

\* the event of emit_status(description, done); the description is a fixed
\* text, with the path of a model or a warning in it
Status(text, path, warning, done) ==
    [text |-> text, path |-> path, warning |-> warning, done |-> done, of |-> "pipe"]

\* the event as the emitter to is handed it
Handed(status, to) ==
    [text |-> status.text, path |-> status.path, warning |-> status.warning,
     done |-> status.done, of |-> status.of, to |-> to]

\* emit_status puts the event before the ones the emitters were handed
EmittedFirst(handed, to, status) ==
    IF to # "None" THEN <<Handed(status, to)>> \o handed ELSE handed

\* emit_status: the events the emitters were handed, after the call with
\* self.emitter = to
Emitted(handed, to, status) ==
    IF to # "None" THEN Append(handed, Handed(status, to)) ELSE handed

\* a.update(b), where b is put first and a overwrites it
DictUpdateFirst(a, b) ==
    [k \in DOMAIN a \cup DOMAIN b |-> IF k \in DOMAIN a THEN a[k] ELSE b[k]]

\* a.update(b)
DictUpdate(a, b) ==
    [k \in DOMAIN a \cup DOMAIN b |-> IF k \in DOMAIN b THEN b[k] ELSE a[k]]

\* the valve defaults of lines 671-686
DefaultArguments(cleaned, path, safety, ratio, width, height) ==
    IF In(<<"i", "m", "a", "g", "e", "n", "4">>, Text(path)) \/ In(<<"n", "a", "n", "o", "-", "b", "a", "n", "a", "n", "a">>, Text(path))
    THEN [k \in {"prompt", "enable_safety_checker", "aspect_ratio"} |->
             CASE k = "prompt" -> StrValue(cleaned)
               [] k = "enable_safety_checker" -> BoolValue(safety)
               [] k = "aspect_ratio" -> StrValue(ratio)]
    ELSE [k \in {"prompt", "enable_safety_checker", "image_size"} |->
             CASE k = "prompt" -> StrValue(cleaned)
               [] k = "enable_safety_checker" -> BoolValue(safety)
               [] k = "image_size" -> SizeValue(width, height)]

\* yield text; return
YieldAndReturn(text) ==
    /\ yielded' = Append(yielded, text)
    /\ pc' = "done"

\* lines 647-650: parse_prompt_tags returns result, or raises
Parsed(result) ==
    /\ pc' = IF result.raised = "none" THEN "warnings" ELSE "raised"
    /\ cleaned_prompt' = result.cleaned_prompt
    /\ overrides' = result.overrides

\* lines 593-650 for a request that is routed to path
Routed(path, with_messages) ==
    /\ api_model_id' = path
    /\ IF path = "None"
       THEN /\ YieldAndReturn("Error: The selected model is not supported")
            /\ UNCHANGED <<model_config, cleaned_prompt, overrides>>
       ELSE IF with_messages = <<>>
       THEN /\ YieldAndReturn("Error: No messages found.")
            /\ UNCHANGED <<model_config, cleaned_prompt, overrides>>
       ELSE IF LastUserMessage(with_messages) = <<>>
       THEN /\ YieldAndReturn("Error: No prompt found.")
            /\ UNCHANGED <<model_config, cleaned_prompt, overrides>>
       ELSE /\ model_config' = ModelConfig(path)
            /\ Parsed(ParsePromptTags(LastUserMessage(with_messages), ModelConfig(path),
                                      WIDTH, HEIGHT))
            /\ UNCHANGED yielded

\* pipe is called (lines 562-650): the emitter is kept, and the request is
\* taken for a tag generation request or routed to a model and its prompt
\* parsed
Begin(with_emitter, with_messages) ==
    /\ pc = "typing"
    /\ event_emitter' = with_emitter
    /\ messages' = with_messages
    /\ emitter' = with_emitter
    /\ IF IsTagGenerationRequest(LastUserMessage(with_messages))
       THEN /\ pc' = "tag generation"
            /\ UNCHANGED <<api_model_id, model_config, cleaned_prompt, overrides,
                           yielded>>
       ELSE Routed(ApiModelId(request_model_id), with_messages)
    /\ UNCHANGED <<vocab, prompt, typed, request_model_id, valves>>
    /\ UNCHANGED <<warned, arguments, events, submitted, other>>
    /\ UNCHANGED deploy_vars

\* line 585
EmitGeneratingTags ==
    /\ pc = "tag generation"
    /\ events' = Emitted(events, emitter,
                         Status("Generating tags with OpenRouter...", "None",
                                NoWarning, FALSE))
    /\ pc' = "generating tags"
    /\ UNCHANGED <<vocab, prompt, model_config, cleaned_prompt, overrides, typed>>
    /\ UNCHANGED <<request_model_id, valves, messages, event_emitter, other>>
    /\ UNCHANGED deploy_vars
    /\ UNCHANGED <<emitter, api_model_id, warned, arguments, submitted, yielded>>

\* lines 588-592: generate_tags_with_openrouter returns the tags or its
\* fallback, and never raises
GenerateTags ==
    /\ pc = "generating tags"
    /\ events' = Emitted(events, emitter,
                         Status("Tag generation complete", "None", NoWarning, TRUE))
    /\ YieldAndReturn("tags")
    /\ UNCHANGED <<vocab, prompt, model_config, cleaned_prompt, overrides, typed>>
    /\ UNCHANGED <<request_model_id, valves, messages, event_emitter, other>>
    /\ UNCHANGED deploy_vars
    /\ UNCHANGED <<emitter, api_model_id, warned, arguments, submitted>>

\* lines 654-655: the next warning is emitted
EmitWarning ==
    /\ pc = "warnings"
    /\ warned < Len(WarningsOf(overrides))
    /\ events' = Emitted(events, emitter,
                         Status("Warning: ", "None",
                                WarningsOf(overrides)[warned + 1], FALSE))
    /\ warned' = warned + 1
    /\ UNCHANGED <<vocab, prompt, model_config, pc, cleaned_prompt, overrides, typed>>
    /\ UNCHANGED <<request_model_id, valves, messages, event_emitter, other>>
    /\ UNCHANGED deploy_vars
    /\ UNCHANGED <<emitter, api_model_id, arguments, submitted, yielded>>

\* lines 656-689: the warnings are deleted from the overrides, and with a
\* FAL_KEY the arguments are the valve defaults updated with the overrides.
\* (A path that is no path of MODELS has no model_config: lines 659-661.)
ConstructArguments ==
    /\ pc = "warnings"
    /\ warned = Len(WarningsOf(overrides))
    /\ overrides' = DictDel(overrides, "_warnings")
    /\ events' = IF model_config = "None"
                 THEN Emitted(events, emitter,
                              Status("Note: Tag parsing not available for model ",
                                     api_model_id, NoWarning, FALSE))
                 ELSE events
    /\ IF FAL_KEY = ""
       THEN /\ YieldAndReturn("Error: FAL_KEY not set in valves.")
            /\ UNCHANGED arguments
       ELSE /\ arguments' =
                   DictUpdate(DefaultArguments(cleaned_prompt, api_model_id,
                                               ENABLE_SAFETY_CHECKER, ASPECT_RATIO,
                                               WIDTH, HEIGHT),
                              DictDel(overrides, "_warnings"))
            /\ pc' = "generating"
            /\ UNCHANGED yielded
    /\ UNCHANGED <<vocab, prompt, model_config, cleaned_prompt, typed>>
    /\ UNCHANGED <<request_model_id, valves, messages, event_emitter, other>>
    /\ UNCHANGED deploy_vars
    /\ UNCHANGED <<emitter, api_model_id, warned, submitted>>

\* line 692
EmitGenerating ==
    /\ pc = "generating"
    /\ events' = Emitted(events, emitter,
                         Status("Generating image with ", api_model_id, NoWarning,
                                FALSE))
    /\ pc' = "submitting"
    /\ UNCHANGED <<vocab, prompt, model_config, cleaned_prompt, overrides, typed>>
    /\ UNCHANGED <<request_model_id, valves, messages, event_emitter, other>>
    /\ UNCHANGED deploy_vars
    /\ UNCHANGED <<emitter, api_model_id, warned, arguments, submitted, yielded>>

\* lines 697-701: fal_client.submit(api_model_id, arguments=arguments)
Submit ==
    /\ pc = "submitting"
    /\ submitted' = Append(submitted, [path |-> api_model_id, arguments |-> arguments])
    /\ pc' = "submitted"
    /\ UNCHANGED <<vocab, prompt, model_config, cleaned_prompt, overrides, typed>>
    /\ UNCHANGED <<request_model_id, valves, messages, event_emitter, other>>
    /\ UNCHANGED deploy_vars
    /\ UNCHANGED <<emitter, api_model_id, warned, arguments, events, yielded>>

\* lines 703-726: the generation gives images, or a result without images,
\* or raises
Results == {"Generated images successfully", "Generation failed", "Error: "}

Complete(result) ==
    /\ pc = "submitted"
    /\ events' = Emitted(events, emitter, Status(result, "None", NoWarning, TRUE))
    /\ YieldAndReturn(result)
    /\ UNCHANGED <<vocab, prompt, model_config, cleaned_prompt, overrides, typed>>
    /\ UNCHANGED <<request_model_id, valves, messages, event_emitter, other>>
    /\ UNCHANGED deploy_vars
    /\ UNCHANGED <<emitter, api_model_id, warned, arguments, submitted>>

NextPipe ==
    \/ \E piece \in Pieces(vocab) : Type(piece)
    \/ \E with_emitter \in {"None", "emitter"} :
           \E with_messages \in {<<>>, <<UserMessage(prompt)>>} :
               Begin(with_emitter, with_messages)
    \/ EmitGeneratingTags
    \/ GenerateTags
    \/ EmitWarning
    \/ ConstructArguments
    \/ EmitGenerating
    \/ Submit
    \/ \E result \in Results : Complete(result)

\* the prefix the host puts before the id of a model in body["model"]
HostPrefixes == {<<>>, <<"f", "a", "l", ".">>}

\* the valves as the user has set them
CustomValves ==
    /\ WIDTH = 1280
    /\ HEIGHT = 720
    /\ ENABLE_SAFETY_CHECKER = TRUE
    /\ ASPECT_RATIO = <<"1", ":", "1">>

\* requests for two listed models and for a model that is not listed, with
\* prompts of tags, under the default valves, under custom ones and under a
\* HEIGHT of 0
InitPipe ==
    /\ vocab = "pipe"
    /\ model_config = "None"
    /\ FAL_KEY \in {"", "key"}
    /\ \/ (WIDTH = DefaultWidth /\ HEIGHT = DefaultHeight /\ DefaultSettings)
       \/ (WIDTH = DefaultWidth /\ HEIGHT = 0 /\ DefaultSettings)
       \/ CustomValves
    /\ request_model_id \in {Text("falai-flux-1-dev"),
                             Text("falai-nano-banana-pro"), <<"g", "p", "t", "-", "4">>}
    /\ prompt = <<>>
    /\ typed = 0
    /\ Unparsed

SpecPipe == InitPipe /\ [][NextPipe]_vars

\* requests for every listed model, with and without the prefix of the host
InitRouting ==
    /\ vocab = "routing"
    /\ model_config = "None"
    /\ WIDTH = DefaultWidth
    /\ HEIGHT = DefaultHeight
    /\ DefaultSettings
    /\ FAL_KEY = "key"
    /\ \E prefix \in HostPrefixes : \E i \in DOMAIN MODELS :
           request_model_id = prefix \o Text(MODELS[i].id)
    /\ prompt = <<>>
    /\ typed = 0
    /\ Unparsed

SpecRouting == InitRouting /\ [][NextPipe]_vars

\* the call of pipe is not made yet, or it is over, or it is at the await of
\* run_in_executor (line 701), where the event loop runs other coroutines.
\* (The awaits of the emitter give way only if the emitter does, and are
\* left out.)
AtAwait == pc \in {"typing", "submitted", "done", "raised"}

\* a status event of the other call of pipe
OtherStatus(text, done) ==
    [text |-> text, path |-> "None", warning |-> NoWarning, done |-> done,
     of |-> "other"]

\* another call of pipe on the same Pipe, for a request with a prompt
\* without tags: it runs from line 562, self.emitter = __event_emitter__,
\* to the await of run_in_executor
OtherBegin(with_emitter) ==
    /\ AtAwait
    /\ other.pc = "not called"
    /\ emitter' = with_emitter
    /\ events' = Emitted(events, with_emitter,
                         OtherStatus("Generating image with ", FALSE))
    /\ other' = [pc |-> "submitted", event_emitter |-> with_emitter]
    /\ UNCHANGED <<vocab, prompt, model_config, pc, cleaned_prompt, overrides, typed>>
    /\ UNCHANGED <<request_model_id, valves, messages, event_emitter>>
    /\ UNCHANGED <<api_model_id, warned, arguments, submitted, yielded>>
    /\ UNCHANGED deploy_vars

\* the other call goes on after its await (lines 703-726): it emits the
\* result with done=True and returns
OtherComplete(result) ==
    /\ AtAwait
    /\ other.pc = "submitted"
    /\ events' = Emitted(events, emitter, OtherStatus(result, TRUE))
    /\ other' = [other EXCEPT !.pc = "done"]
    /\ UNCHANGED <<vocab, prompt, model_config, pc, cleaned_prompt, overrides, typed>>
    /\ UNCHANGED <<request_model_id, valves, messages, event_emitter>>
    /\ UNCHANGED <<emitter, api_model_id, warned, arguments, submitted, yielded>>
    /\ UNCHANGED deploy_vars

NextInterleaved ==
    \/ NextPipe
    \/ OtherBegin("other emitter")
    \/ \E result \in Results : OtherComplete(result)

\* two calls of pipe on one Pipe
InitInterleaved ==
    /\ vocab = "routing"
    /\ model_config = "None"
    /\ WIDTH = DefaultWidth
    /\ HEIGHT = DefaultHeight
    /\ DefaultSettings
    /\ FAL_KEY \in {"", "key"}
    /\ request_model_id = Text("falai-flux-1-dev")
    /\ prompt = <<>>
    /\ typed = 0
    /\ Unparsed

SpecInterleaved == InitInterleaved /\ [][NextInterleaved]_vars

---------------------------------------------------------------------------
(* src/scripts/deploy.py: deploy_all sends every function file of the      *)
(* functions directory to the host, as an update or as a create.           *)

\* a file of the functions directory: the stem of its name, whether it can
\* be read, whether its content has a class definition, and the id its
\* content assigns (<<>> when id_match finds none)
File(stem, readable, has_class, id) ==
    [stem |-> stem, readable |-> readable, has_class |-> has_class, id |-> id]

Files ==
    {File(<<"a", "-", "b">>, TRUE, TRUE, <<>>),
     File(<<"a", "_", "b">>, TRUE, TRUE, <<>>),
     File(<<"c">>, TRUE, FALSE, <<>>),
     File(<<"d">>, TRUE, TRUE, <<"a", ".", "b">>),
     File(<<"e">>, FALSE, TRUE, <<>>),
     File(<<"g">>, TRUE, TRUE, <<>>),
     File(<<"_", "_", "i", "n", "i", "t", "_", "_">>, TRUE, TRUE, <<>>)}

\* lines 93-94: function_id.replace('-', '_') and
\* re.sub(r'[^a-zA-Z0-9_]', '_', function_id), for one character
SanitizeChar(c) ==
    IF c \in LowerLetters \cup UpperLetters \cup DigitChars \cup {"_"} THEN c ELSE "_"

Sanitize(function_id) == [i \in DOMAIN function_id |-> SanitizeChar(function_id[i])]

\* extract_function_metadata(file_path): the metadata with its id, or None
ExtractFunctionMetadata(file) ==
    IF ~file.readable \/ ~file.has_class THEN [is_none |-> TRUE, id |-> <<>>]
    ELSE [is_none |-> FALSE,
          id |-> Sanitize(IF file.id # <<>> THEN file.id ELSE file.stem)]

\* line 239: not f.name.startswith('__')
IsFunctionFile(file) == ~(Len(file.stem) >= 2 /\ SubSeq(file.stem, 1, 2) = <<"_", "_">>)

\* deploy_function sends a create for every function
CreateAlways(function_id, existing) == "create"

\* lines 209-216: update_function or create_function
UpdateOrCreate(function_id, existing) ==
    IF function_id \in existing THEN "update" ELSE "create"

\* the host answers a request: it may fail; a create of an id that is on
\* the host and an update of one that is not do not succeed
Answers(kind, function_id) ==
    IF (kind = "create") = (function_id \notin host) THEN BOOLEAN ELSE {FALSE}

\* lines 228-243: get_existing_functions returns the ids on the host, or {}
\* when the request fails; the files whose name starts with __ are left out
GetExistingFunctions(answered) ==
    /\ pc = "deploy_all"
    /\ existing_functions' = IF answered THEN host ELSE {}
    /\ python_files' = SelectSeq(python_files, IsFunctionFile)
    /\ pc' = IF SelectSeq(python_files, IsFunctionFile) = <<>>
             THEN "deployed" ELSE "deploying"
    /\ UNCHANGED <<host, stats, posted, processed>>
    /\ UNCHANGED <<vocab, prompt, model_config, cleaned_prompt, overrides, typed>>
    /\ UNCHANGED <<request_model_id, valves, pipe_vars>>

\* deploy_function returns False without a request (lines 203-205)
NotDeployed ==
    /\ stats' = [stats EXCEPT !.total = @ + 1, !.failed = @ + 1]
    /\ UNCHANGED <<host, posted>>

\* deploy_function sends the request and returns what it returns
\* (lines 207-216 and 146-160 or 173-189)
Post(kind, function_id, answered) ==
    /\ posted' = Append(posted, [kind |-> kind, id |-> function_id,
                                 file |-> processed + 1, answered |-> answered])
    /\ host' = IF answered THEN host \cup {function_id} ELSE host
    /\ stats' = IF answered
                THEN [stats EXCEPT !.total = @ + 1, !.success = @ + 1]
                ELSE [stats EXCEPT !.total = @ + 1, !.failed = @ + 1]

\* deploy_function(file_path, existing_functions), from the metadata on
\* (lines 203-216)
DeployMetadata(metadata) ==
    IF metadata.is_none
    THEN NotDeployed
    ELSE \E answered \in Answers(UpdateOrCreate(metadata.id, existing_functions),
                                 metadata.id) :
             Post(UpdateOrCreate(metadata.id, existing_functions), metadata.id,
                  answered)

\* lines 246-251: the loop of deploy_all goes through the next file
DeployFunction ==
    /\ pc = "deploying"
    /\ processed < Len(python_files)
    /\ processed' = processed + 1
    /\ DeployMetadata(ExtractFunctionMetadata(python_files[processed + 1]))
    /\ UNCHANGED <<python_files, existing_functions, pc>>
    /\ UNCHANGED <<vocab, prompt, model_config, cleaned_prompt, overrides, typed>>
    /\ UNCHANGED <<request_model_id, valves, pipe_vars>>

\* lines 253-256: deploy_all returns stats
ReturnStats ==
    /\ pc = "deploying"
    /\ processed = Len(python_files)
    /\ pc' = "deployed"
    /\ UNCHANGED deploy_vars
    /\ UNCHANGED <<vocab, prompt, model_config, cleaned_prompt, overrides, typed>>
    /\ UNCHANGED <<request_model_id, valves, pipe_vars>>

NextDeploy ==
    \/ \E answered \in BOOLEAN : GetExistingFunctions(answered)
    \/ DeployFunction
    \/ ReturnStats

\* the lists of at most n files, no file twice
RECURSIVE FileLists(_)
FileLists(n) ==
    IF n = 0 THEN {<<>>}
    ELSE FileLists(n - 1) \cup
         {Append(l, f) : l \in {k \in FileLists(n - 1) : Len(k) = n - 1},
                         f \in Files}

HasNoFileTwice(l) == \A i, j \in DOMAIN l : i # j => l[i] # l[j]

\* a run of deploy.py on a functions directory of at most MaxFiles files,
\* against a host that has the function a_b or no function
InitDeploy ==
    /\ pc = "deploy_all"
    /\ python_files \in {l \in FileLists(MaxFiles) : HasNoFileTwice(l)}
    /\ host \in {{}, {<<"a", "_", "b">>}}
    /\ existing_functions = {}
    /\ stats = [total |-> 0, success |-> 0, failed |-> 0]
    /\ posted = <<>>
    /\ processed = 0
    /\ vocab = "none"
    /\ model_config = "None"
    /\ prompt = <<>>
    /\ typed = 0
    /\ request_model_id = <<>>
    /\ cleaned_prompt = <<>>
    /\ overrides = EmptyDict
    /\ DefaultValves
    /\ NotCalled

SpecDeploy == InitDeploy /\ [][NextDeploy]_vars

---------------------------------------------------------------------------
(* What the documentation says of tags.  A tag is written at s[i] when a   *)
(* marker there is immediately followed by a word character; its name is   *)
(* the run of word characters, its value the text from the name up to the  *)
(* next marker or the end of the prompt, without the whitespace around it. *)

TagTokenAt(s, i) ==
    /\ IsMarkerAt(s, i)
    /\ i + MarkerLen(s, i) <= Len(s)
    /\ IsWord(s[i + MarkerLen(s, i)])

WrittenTags(s) == {i \in 1..Len(s) : TagTokenAt(s, i)}

HasTagToken(s) == WrittenTags(s) # {}

WrittenNameEnd(s, i) == WordRun(s, i + MarkerLen(s, i))

WrittenName(s, i) == Slice(s, i + MarkerLen(s, i), WrittenNameEnd(s, i))

\* the position of the first marker from k on, Len(s) + 1 when there is none
RECURSIVE NextMarker(_, _)
NextMarker(s, k) ==
    IF k > Len(s) \/ IsMarkerAt(s, k) THEN k ELSE NextMarker(s, k + 1)

\* <<>> when the value is absent
WrittenValue(s, i) ==
    Strip(Slice(s, WrittenNameEnd(s, i), NextMarker(s, WrittenNameEnd(s, i))))

HasParseTags(model_id) == ParseTagsConfig(model_id) # <<>>

\* the parameter names the MODELS entry declares in parse_tags
DeclaredParameters(model_id) ==
    UNION {{MODELS[i].parse_tags[j].parameter : j \in DOMAIN MODELS[i].parse_tags} :
           i \in {k \in DOMAIN MODELS : MODELS[k].id = model_id}}

\* the tag names the MODELS entry declares in parse_tags
DeclaredTags(model_id) ==
    UNION {{MODELS[i].parse_tags[j].tag : j \in DOMAIN MODELS[i].parse_tags} :
           i \in {k \in DOMAIN MODELS : MODELS[k].id = model_id}}

\* the parameter the MODELS entry declares for a tag name
DeclaredParameter(model_id, tag_name) ==
    CHOOSE p \in DeclaredParameters(model_id) :
        \E i \in DOMAIN MODELS : \E j \in DOMAIN MODELS[i].parse_tags :
            /\ MODELS[i].id = model_id
            /\ MODELS[i].parse_tags[j] = TagRule(tag_name, p)

\* the call returned, for a model that has tag rules
Returned == pc = "returned" /\ HasParseTags(model_config)

---------------------------------------------------------------------------
(* C1: for every prompt and every model with tag rules, the cleaned prompt *)
(* that parse_prompt_tags returns contains no tag token, that is, no       *)
(* marker immediately followed by word characters.                         *)
(* The code leaves one, e.g. "--x--x" is cleaned to "--x".                 *)
C1_CleanedPromptHasNoTagToken == Returned => ~HasTagToken(cleaned_prompt)

(* C2: idempotence: parse_prompt_tags on the cleaned prompt it returned    *)
(* returns that cleaned prompt unchanged, with no overrides and no         *)
(* warnings.                                                               *)
(* The code does not, e.g. "--x--x" is cleaned to "--x", and "--x" then    *)
(* to "" with a warning.                                                   *)
C2_ParseIsIdempotent ==
    Returned =>
        ParsePromptTags(cleaned_prompt, model_config, WIDTH, HEIGHT)
            = ParseResult("none", cleaned_prompt, EmptyDict)

WrittenTagIsInvalid(s, i, model_id, base_width, base_height) ==
    IF WrittenName(s, i) \notin DeclaredTags(model_id) THEN TRUE
    ELSE ConvertTagValue(WrittenName(s, i), WrittenValue(s, i) # <<>>,
                         WrittenValue(s, i),
                         DeclaredParameter(model_id, WrittenName(s, i)),
                         base_width, base_height).outcome = "ValueError"

InvalidTags(s, model_id, base_width, base_height) ==
    {i \in WrittenTags(s) : WrittenTagIsInvalid(s, i, model_id, base_width, base_height)}

\* what C4 says of a prompt s with the invalid tags inv, parsed to
\* (cleaned, overrides_)
InvalidTagsHandled(s, inv, model_id, cleaned, overrides_) ==
    /\ Len(WarningsOf(overrides_)) = Cardinality(inv)
    /\ \A i \in inv : \A j \in WrittenTags(cleaned) :
           WrittenName(cleaned, j) # WrittenName(s, i)
    /\ \A p \in DOMAIN overrides_ \ {"_warnings"} :
           \E i \in WrittenTags(s) \ inv :
               DeclaredParameter(model_id, WrittenName(s, i)) = p

(* C4: every tag written in the prompt whose name is unknown to the model, *)
(* whose value fails coercion, or which requires a value and has none, is  *)
(* removed from the cleaned prompt, produces no override, and contributes  *)
(* exactly one warning; the number of warnings is the number of such tags. *)
(* The code drops some without a warning and leaves them in the prompt,    *)
(* e.g. the unknown tag of "a cat --bogus " (a space ends the prompt).     *)
C4_InvalidTagsAreRemovedAndWarned ==
    Returned =>
        InvalidTagsHandled(prompt, InvalidTags(prompt, model_config, WIDTH, HEIGHT),
                           model_config, cleaned_prompt, overrides)

(* C5: parse_prompt_tags never raises: for every prompt and model, with    *)
(* the base dimensions read from the valves WIDTH and HEIGHT, it returns a *)
(* cleaned prompt and an override set.                                     *)
(* With the valve HEIGHT set to 0 an aspect ratio tag raises               *)
(* ZeroDivisionError, which the handler of ValueError does not catch.      *)
C5_ParseNeverRaises == pc # "raised"

\* the matches, by their index in the list, whose tag the model maps to
\* parameter p
MatchesFor(matches, model_id, p) ==
    {i \in DOMAIN matches :
        /\ matches[i].name \in DeclaredTags(model_id)
        /\ DeclaredParameter(model_id, matches[i].name) = p}

\* what the conversion makes of a match for parameter p
Converted(match, p, base_width, base_height) ==
    ConvertTagValue(match.name, match.has_value, match.value, p,
                    base_width, base_height)

\* the matches among occurrences whose value converts
Convertible(matches, occurrences, p, base_width, base_height) ==
    {i \in occurrences :
        Converted(matches[i], p, base_width, base_height).outcome = "returns"}

Last(occurrences) == CHOOSE i \in occurrences : \A j \in occurrences : j <= i

\* overrides_[p] is what the last of the occurrences converts to
LastWins(matches, occurrences, p, base_width, base_height, overrides_) ==
    /\ Converted(matches[Last(occurrences)], p, base_width, base_height).outcome
           = "returns"
    /\ p \in DOMAIN overrides_
    /\ overrides_[p] =
           Converted(matches[Last(occurrences)], p, base_width, base_height).value

\* the last of the occurrences that converts wins; there is no override
\* when none converts
LastConvertibleWins(matches, convertible, p, base_width, base_height, overrides_) ==
    IF convertible = {} THEN p \notin DOMAIN overrides_
    ELSE LastWins(matches, convertible, p, base_width, base_height, overrides_)

\* the parameters that several of the matches map to
ParametersOfSeveral(matches, model_id) ==
    {p \in DeclaredParameters(model_id) :
        Cardinality(MatchesFor(matches, model_id, p)) >= 2}

LastWinsForAll(matches, model_id, base_width, base_height, overrides_) ==
    \A p \in ParametersOfSeveral(matches, model_id) :
        LastWins(matches, MatchesFor(matches, model_id, p), p,
                 base_width, base_height, overrides_)

LastConvertibleWinsForAll(matches, model_id, base_width, base_height, overrides_) ==
    \A p \in ParametersOfSeveral(matches, model_id) :
        LastConvertibleWins(
            matches,
            Convertible(matches, MatchesFor(matches, model_id, p), p,
                        base_width, base_height),
            p, base_width, base_height, overrides_)

MatchOfWrittenTag(matches, s, i) ==
    \E k \in DOMAIN matches :
        /\ matches[k].start = i
        /\ matches[k].name = WrittenName(s, i)
        /\ matches[k].has_value = (WrittenValue(s, i) # <<>>)
        /\ Strip(matches[k].value) = WrittenValue(s, i)

(* C7: the value of a tag is the text that follows the tag name, after     *)
(* whitespace, up to the next marker or the end of the prompt; a tag       *)
(* immediately followed by another marker or by the end of the prompt has  *)
(* an absent value.                                                        *)
(* The code makes no tag at all of a name followed by text with a hyphen   *)
(* in it ("--format png-8"), or by whitespace that ends the prompt         *)
(* ("a cat --safe ").                                                      *)
C7_ValueRunsToNextMarkerOrEnd ==
    Returned =>
        \A i \in WrittenTags(prompt) :
            MatchOfWrittenTag(FindIter(prompt, 1), prompt, i)

\* a base-10 integer with an optional leading sign
IsSignedInteger(v) ==
    /\ Unsigned(v) # <<>>
    /\ \A i \in DOMAIN Unsigned(v) : Unsigned(v)[i] \in DigitChars

SignedIntegerValue(v) == SignOf(v) * DigitsValue(Unsigned(v))

IntegerTags == {<<"s", "t", "e", "p", "s">>, <<"s", "e", "e", "d">>,
                <<"r", "e", "p", "e", "a", "t">>}

\* the tag name is written once in s, at s[i]
WrittenOnce(s, i) ==
    \A j \in WrittenTags(s) : WrittenName(s, j) = WrittenName(s, i) => j = i

\* what C8 says of the integer tag written at s[i] with value v for
\* parameter p
IntegerTagHandled(s, i, v, p, cleaned, overrides_) ==
    /\ IsSignedInteger(v) =>
           /\ p \in DOMAIN overrides_
           /\ overrides_[p] = IntValue(SignedIntegerValue(v))
    /\ (v # <<>> /\ ~IsSignedInteger(v) /\ ~IsDigitPart(Unsigned(v))) =>
           /\ p \notin DOMAIN overrides_
           /\ \E w \in DOMAIN WarningsOf(overrides_) :
                  WarningsOf(overrides_)[w].tag = WrittenName(s, i)
    /\ v # <<>> =>
           \A j \in WrittenTags(cleaned) : WrittenName(cleaned, j) # WrittenName(s, i)

(* C8: for a tag mapped to an integer parameter (steps, seed, repeat), a   *)
(* value that is a base-10 integer with an optional leading sign is stored *)
(* in overrides as that integer; a non-numeric value yields a warning and  *)
(* no override; the tag is removed from the cleaned prompt.                *)
(* The code makes no tag of a name followed by a minus sign: "--seed -5"   *)
(* is returned as it is, with no override and no warning.                  *)
C8_SignedIntegersAreStored ==
    Returned =>
        \A i \in WrittenTags(prompt) :
            (WrittenName(prompt, i) \in IntegerTags /\ WrittenOnce(prompt, i)) =>
                IntegerTagHandled(prompt, i, WrittenValue(prompt, i),
                                  DeclaredParameter(model_config, WrittenName(prompt, i)),
                                  cleaned_prompt, overrides)

\* a and b are the same word but for the case of the letters
SameIgnoringCase(a, b) ==
    /\ Len(a) = Len(b)
    /\ \A i \in DOMAIN a :
           \/ a[i] = b[i]
           \/ \E k \in DOMAIN LowerSeq :
                  {a[i], b[i]} = {LowerSeq[k], UpperSeq[k]}

IsOneOf(v, words) == \E word \in words : SameIgnoringCase(v, word)

TrueWords == {<<"t", "r", "u", "e">>, <<"1">>, <<"y", "e", "s">>}
FalseWords == {<<"f", "a", "l", "s", "e">>, <<"0">>, <<"n", "o">>}

BooleanParameters == {"enable_safety_checker", "enhance_prompt"}

\* the only match with its tag name
MatchedOnce(matches, k) ==
    \A j \in DOMAIN matches : matches[j].name = matches[k].name => j = k

\* what C9 says of a match with value v (without the whitespace around it)
\* for the boolean parameter p
BooleanTagHandled(match, v, p, overrides_) ==
    IF ~match.has_value \/ IsOneOf(v, TrueWords)
    THEN p \in DOMAIN overrides_ /\ overrides_[p] = BoolValue(TRUE)
    ELSE IF IsOneOf(v, FalseWords)
    THEN p \in DOMAIN overrides_ /\ overrides_[p] = BoolValue(FALSE)
    ELSE /\ p \notin DOMAIN overrides_
         /\ \E w \in DOMAIN WarningsOf(overrides_) :
                /\ WarningsOf(overrides_)[w].tag = match.name
                /\ WarningsOf(overrides_)[w].text = "Invalid boolean value"

BooleanTagsHandled(matches, model_id, overrides_) ==
    \A p \in BooleanParameters : \A k \in MatchesFor(matches, model_id, p) :
        MatchedOnce(matches, k) =>
            BooleanTagHandled(matches[k], Strip(matches[k].value), p, overrides_)

\* the conversion of a boolean tag returns, or raises the ValueError that
\* parse_prompt_tags turns into a warning
BooleanTagsNeverRaise(matches, model_id, base_width, base_height) ==
    \A p \in BooleanParameters : \A k \in MatchesFor(matches, model_id, p) :
        Converted(matches[k], p, base_width, base_height).outcome
            \in {"returns", "ValueError"}

ExactSize(rw, rh, base_width, base_height) ==
    IF rw * base_height > rh * base_width
    THEN SizeValue((base_height * rw) \div rh, base_height)
    ELSE SizeValue(base_width, (base_width * rh) \div rw)

(* C10: for every ratio rw:rh of positive integers and positive base       *)
(* dimensions (baseW, baseH), the derived size is (floor(baseH*rw/rh),     *)
(* baseH) when rw/rh > baseW/baseH and (baseW, floor(baseW*rh/rw))         *)
(* otherwise; for base (800, 1422) and 16:9 it is 2528 by 1422.            *)
(* The code computes in floats and truncates: for base (800, 720) and 7:5  *)
(* it returns the width 1007, where 720 * 7 / 5 is exactly 1008.           *)
C10_SizeIsExactFloor ==
    \A rw, rh \in 1..MaxRatio :
        (/\ pc = "returned"
         /\ prompt = RatioPrompt(rw, rh)
         /\ WIDTH > 0
         /\ HEIGHT > 0) =>
            /\ "image_size" \in DOMAIN overrides
            /\ overrides["image_size"] = ExactSize(rw, rh, WIDTH, HEIGHT)

\* the call returned the size for the prompt "--ar rw:rh" under positive
\* valves
SizeReturnedFor(rw, rh) ==
    /\ pc = "returned"
    /\ prompt = RatioPrompt(rw, rh)
    /\ WIDTH > 0
    /\ HEIGHT > 0
    /\ "image_size" \in DOMAIN overrides

(* C11: when the requested ratio rw:rh equals the base ratio baseW:baseH   *)
(* (rw * baseH = rh * baseW), the derivation takes the taller-or-equal     *)
(* branch and returns exactly (baseW, baseH).                              *)
(* The code takes that branch and divides in floats: for base (504, 392)   *)
(* and 9:7 it returns the height int(504 / (9 / 7)) = 391.                 *)
C11_EqualRatioKeepsBase ==
    \A rw, rh \in 1..MaxRatio :
        (SizeReturnedFor(rw, rh) /\ rw * HEIGHT = rh * WIDTH) =>
            overrides["image_size"] = SizeValue(WIDTH, HEIGHT)

\* one dimension is the base value, neither is smaller than its base value
OnlyAdjustedUp(size, base_width, base_height) ==
    /\ size.width = base_width \/ size.height = base_height
    /\ size.width >= base_width
    /\ size.height >= base_height
    /\ size.width > 0
    /\ size.height > 0

(* C12: for every valid ratio and positive base dimensions, the derived    *)
(* size keeps at least one of width and height equal to its base value,    *)
(* and the other is never smaller than its base value, so both are         *)
(* positive.                                                               *)
(* The code returns a height below the base height: for base (504, 392)    *)
(* and 9:7 it returns 504 by 391.                                          *)
C12_SizeIsOnlyAdjustedUp ==
    \A rw, rh \in 1..MaxRatio :
        SizeReturnedFor(rw, rh) =>
            OnlyAdjustedUp(overrides["image_size"], WIDTH, HEIGHT)

\* v is <digits>:<digits>, the colon at v[c]
IsRatioAt(v, c) ==
    /\ 1 < c /\ c < Len(v)
    /\ v[c] = ":"
    /\ \A i \in DOMAIN v : i # c => v[i] \in DigitChars

\* a component of a ratio is zero: all of the digits on one side of the
\* colon at v[c] are 0
HasZeroComponent(v, c) ==
    \/ \A i \in 1..(c - 1) : v[i] = "0"
    \/ \A i \in (c + 1)..Len(v) : v[i] = "0"

\* v is a ratio of two positive integers
IsValidRatio(v) == \E c \in DOMAIN v : IsRatioAt(v, c) /\ ~HasZeroComponent(v, c)

\* what C13 says of the aspect ratio match for tag_name when its value is
\* no valid ratio: the call returns, without a size, with a warning
RatioRefused(tag_name, pc_, overrides_) ==
    /\ pc_ = "returned"
    /\ "image_size" \notin DOMAIN overrides_
    /\ \E w \in DOMAIN WarningsOf(overrides_) :
           WarningsOf(overrides_)[w].tag = tag_name

RatiosRefused(matches, model_id, pc_, overrides_) ==
    \A k \in MatchesFor(matches, model_id, "image_size") :
        (MatchedOnce(matches, k) /\ ~IsValidRatio(Strip(matches[k].value))) =>
            RatioRefused(matches[k].name, pc_, overrides_)

Refused(matches, model_id, base_width, base_height) ==
    {k \in DOMAIN matches :
        \/ matches[k].name \notin DeclaredTags(model_id)
        \/ Converted(matches[k], DeclaredParameter(model_id, matches[k].name),
                     base_width, base_height).outcome = "ValueError"}

\* the matches that are the last of their parameter to convert: the valid
\* tags whose value the overrides are to hold
Winners(matches, model_id, base_width, base_height) ==
    {k \in DOMAIN matches :
        /\ matches[k].name \in DeclaredTags(model_id)
        /\ k = Last(Convertible(matches,
                                MatchesFor(matches, model_id,
                                           DeclaredParameter(model_id, matches[k].name)),
                                DeclaredParameter(model_id, matches[k].name),
                                base_width, base_height) \cup {0})}

\* the override of match k is what its value converts to
OverrideOf(matches, k, p, base_width, base_height, overrides_) ==
    /\ p \in DOMAIN overrides_
    /\ overrides_[p] = Converted(matches[k], p, base_width, base_height).value

\* every valid tag before or after a refused one has its override
ValidTagsSurvive(matches, refused, winners, model_id, base_width, base_height, overrides_) ==
    \A bad \in refused : \A k \in winners :
        OverrideOf(matches, k, DeclaredParameter(model_id, matches[k].name),
                   base_width, base_height, overrides_)

HasMarker(s) == \E i \in DOMAIN s : IsMarkerAt(s, i)

\* the position after the longest run without whitespace from j
RECURSIVE WordEnd(_, _)
WordEnd(s, j) == IF j <= Len(s) /\ ~IsSpace(s[j]) THEN WordEnd(s, j + 1) ELSE j

\* the words of s from position j on, joined by single spaces; j is at the
\* start of a word or beyond the end of s
RECURSIVE JoinedWords(_, _)
JoinedWords(s, j) ==
    IF j > Len(s) THEN <<>>
    ELSE IF SpaceRun(s, WordEnd(s, j)) > Len(s) THEN Slice(s, j, WordEnd(s, j))
    ELSE Slice(s, j, WordEnd(s, j)) \o <<SP>>
             \o JoinedWords(s, SpaceRun(s, WordEnd(s, j)))

\* s with every whitespace run collapsed to one space and the whitespace at
\* both ends removed
Normalized(s) == JoinedWords(s, SpaceRun(s, 1))

(* C16: for every prompt that contains no tag marker, parse_prompt_tags    *)
(* returns the prompt with every whitespace run collapsed to one space and *)
(* leading and trailing whitespace removed, an empty overrides map and no  *)
(* warnings.                                                               *)
C16_PromptWithoutMarkerIsNormalized ==
    (Returned /\ ~HasMarker(prompt)) =>
        /\ cleaned_prompt = Normalized(prompt)
        /\ overrides = EmptyDict

\* a prompt without a marker, of two words and more whitespace than one
\* space
C16_Witness ==
    /\ Returned
    /\ ~HasMarker(prompt)
    /\ Len(cleaned_prompt) < Len(prompt)
    /\ \E i \in DOMAIN cleaned_prompt : cleaned_prompt[i] = SP
    /\ \E i \in DOMAIN prompt : prompt[i] = NL

(* C17: for a model whose parse_tags list is missing or empty,             *)
(* parse_prompt_tags is a no-op: it returns the prompt exactly as given,   *)
(* tags and whitespace untouched, with empty overrides and no warnings.    *)
C17_NoParseTagsIsNoOp ==
    ~HasParseTags(model_config) =>
        /\ pc # "raised"
        /\ pc = "returned" => (cleaned_prompt = prompt /\ overrides = EmptyDict)

\* a prompt with a tag and whitespace at its end, returned as it is
C17_Witness ==
    /\ pc = "returned"
    /\ ~HasParseTags(model_config)
    /\ HasTagToken(prompt)
    /\ prompt # <<>> /\ IsSpace(prompt[Len(prompt)])
    /\ cleaned_prompt = prompt

\* s with the marker of the tag written at s[i] replaced by the other one
SwapMarker(s, i) ==
    IF s[i] = EM
    THEN Slice(s, 1, i) \o <<"-", "-">> \o Slice(s, i + 1, Len(s) + 1)
    ELSE Slice(s, 1, i) \o <<EM>> \o Slice(s, i + 2, Len(s) + 1)

\* two cleaned prompts are the same, but for the marker of one tag that is
\* left in them
SameButForAMarker(a, b) ==
    a = b \/ \E j \in WrittenTags(a) : SwapMarker(a, j) = b

\* the result of parsing the prompt with one marker replaced is the same
SameResult(result, cleaned, overrides_) ==
    /\ result.raised = "none"
    /\ result.overrides = overrides_
    /\ SameButForAMarker(cleaned, result.cleaned_prompt)

(* C19: the two markers are interchangeable: replacing the marker of any   *)
(* tag by the other marker leaves the cleaned prompt, the overrides and    *)
(* the number and order of the warnings unchanged (a tag that is left in   *)
(* the cleaned prompt keeps the marker it was written with).               *)
C19_MarkersAreInterchangeable ==
    Returned =>
        \A i \in WrittenTags(prompt) :
            SameResult(ParsePromptTags(SwapMarker(prompt, i), model_config,
                                       WIDTH, HEIGHT),
                       cleaned_prompt, overrides)

\* the warning for a refused match
WarningFor(match, model_id, base_width, base_height) ==
    IF match.name \notin DeclaredTags(model_id)
    THEN Message("Unknown tag ignored", match.name, <<>>)
    ELSE Converted(match, DeclaredParameter(model_id, match.name),
                   base_width, base_height).message

\* the j-th of a set of positions, from the left
Nth(positions, j) ==
    CHOOSE k \in positions : Cardinality({i \in positions : i < k}) = j - 1

\* the j-th of the warnings is the warning for the j-th refused match
InOrderOfTags(warnings, matches, refused, model_id, base_width, base_height) ==
    /\ Len(warnings) <= Cardinality(refused)
    /\ \A j \in DOMAIN warnings :
           warnings[j] = WarningFor(matches[Nth(refused, j)], model_id,
                                    base_width, base_height)

IsWarningEvent(event) == event.text = "Warning: "

\* the warnings of the status events the emitter was handed
WarningEvents == SelectSeq(events, IsWarningEvent)

EmittedWarnings == [j \in DOMAIN WarningEvents |-> WarningEvents[j].warning]

\* the warnings that pipe has from parse_prompt_tags are all the warnings,
\* in the order of the tags, and so are the ones it has emitted
WarningsFollowTags(matches, refused) ==
    /\ pc = "warnings" =>
           /\ InOrderOfTags(WarningsOf(overrides), matches, refused, model_config,
                            WIDTH, HEIGHT)
           /\ Len(WarningsOf(overrides)) = Cardinality(refused)
    /\ InOrderOfTags(EmittedWarnings, matches, refused, model_config, WIDTH, HEIGHT)
    /\ (submitted # <<>> /\ emitter # "None") =>
           Len(EmittedWarnings) = Cardinality(refused)

(* C15: warnings are recorded in the left-to-right order of the tags that  *)
(* caused them: the warning of an invalid tag precedes the warning of      *)
(* every invalid tag after it in the prompt, in the warnings list that     *)
(* parse_prompt_tags returns to pipe and in the status events that pipe    *)
(* emits for them.                                                         *)
C15_WarningsAreInOrderOfTags ==
    WarningsFollowTags(FindIter(prompt, 1),
                       Refused(FindIter(prompt, 1), model_config, WIDTH, HEIGHT))

\* two invalid tags with different warnings, both emitted, and the image
\* generated
C15_Witness ==
    /\ pc = "done"
    /\ submitted # <<>>
    /\ Len(EmittedWarnings) = 2
    /\ EmittedWarnings[1] # EmittedWarnings[2]
    /\ EmittedWarnings[1].text = "Unknown tag ignored"

\* the valve defaults of the arguments for a path
DefaultKeys(path) ==
    IF path = "fal-ai/nano-banana-pro"
    THEN {"prompt", "enable_safety_checker", "aspect_ratio"}
    ELSE {"prompt", "enable_safety_checker", "image_size"}

ValveValue(key) ==
    CASE key = "enable_safety_checker" -> BoolValue(ENABLE_SAFETY_CHECKER)
      [] key = "aspect_ratio" -> StrValue(ASPECT_RATIO)
      [] key = "image_size" -> SizeValue(WIDTH, HEIGHT)
      [] key = "prompt" -> StrValue(cleaned_prompt)

\* the arguments of a call are the overrides, and the valve defaults for
\* what is not overridden
DefaultsThenOverrides(call) ==
    /\ DOMAIN call.arguments = DefaultKeys(call.path) \cup DOMAIN overrides
    /\ \A key \in DOMAIN overrides : call.arguments[key] = overrides[key]
    /\ \A key \in DefaultKeys(call.path) \ DOMAIN overrides :
           call.arguments[key] = ValveValue(key)
    /\ call.arguments["prompt"] = StrValue(cleaned_prompt)

(* C18: in the arguments that pipe submits to the backend, every parameter *)
(* that has a tag override carries the override's value, every other       *)
(* default (enable_safety_checker, and image_size or aspect_ratio) has the *)
(* value of its valve, and prompt is the cleaned prompt.                   *)
C18_ArgumentsAreDefaultsThenOverrides ==
    \A k \in DOMAIN submitted : DefaultsThenOverrides(submitted[k])

\* a call under the custom valves with the safety checker overridden by a
\* tag and the image size from the valves, and one with the image size
\* overridden
C18_Witness ==
    /\ submitted # <<>>
    /\ ENABLE_SAFETY_CHECKER
    /\ \/ /\ "enable_safety_checker" \in DOMAIN overrides
          /\ "image_size" \notin DOMAIN overrides
          /\ submitted[1].arguments["image_size"] = SizeValue(1280, 720)
       \/ /\ "image_size" \in DOMAIN overrides
          /\ "aspect_ratio" \in DOMAIN submitted[1].arguments
          /\ submitted[1].arguments["image_size"] # SizeValue(1280, 720)

\* pipes(): the ids of the models that are listed
pipes == {MODELS[i].id : i \in DOMAIN MODELS}

\* the MODELS entry with this id
Listed(id) == MODELS[CHOOSE i \in DOMAIN MODELS : MODELS[i].id = id]

\* body["model"] is the id of this model behind a prefix of the host
IsRequestFor(id) == \E prefix \in HostPrefixes : request_model_id = prefix \o Text(id)

\* what pipe has routed the request to, if it has, is this model
RoutedTo(model) ==
    /\ api_model_id \in {"None", model.path}
    /\ model_config # "None" => ParseTagsConfig(model_config) = model.parse_tags
    /\ \A k \in DOMAIN submitted : submitted[k].path = model.path

(* C20: for every model listed by pipes(), a request whose model field is  *)
(* that model's id behind any host prefix is routed to that model's path   *)
(* and its tags are parsed with that model's parse_tags; no request for    *)
(* one listed model is submitted to the path of another listed model.      *)
C20_RequestIsRoutedToItsModel ==
    \A id \in pipes : IsRequestFor(id) => RoutedTo(Listed(id))

\* the call of pipe is over: it has returned or raised
Finished == pc \in {"done", "raised"}

\* the request is no tag generation request, its model is a supported one,
\* it has a prompt and FAL_KEY is set
MayGenerate ==
    /\ ~IsTagGenerationRequest(LastUserMessage(messages))
    /\ \E i \in DOMAIN MODELS : In(Text(MODELS[i].id), request_model_id)
    /\ LastUserMessage(messages) # <<>>
    /\ FAL_KEY # ""

(* C21: pipe calls the image generation backend at most once, and only     *)
(* when the request is no tag generation request, its model is a supported *)
(* one, a prompt that is not empty was found and FAL_KEY is set; in every  *)
(* other case it yields exactly one message and makes no backend call.     *)
(* Under a HEIGHT of 0 and without a FAL_KEY the prompt "a --ar 1:2" makes *)
(* pipe raise ZeroDivisionError, and it yields nothing.                    *)
C21_BackendCalledOnceAndOnlyForValidRequest ==
    /\ Len(submitted) <= 1
    /\ submitted # <<>> => MayGenerate
    /\ (Finished /\ ~MayGenerate) => (Len(yielded) = 1 /\ submitted = <<>>)

\* every warning of the prompt is among the events the emitters were handed
AllWarningsEmitted(matches, refused) ==
    /\ Len(EmittedWarnings) = Cardinality(refused)
    /\ InOrderOfTags(EmittedWarnings, matches, refused, model_config, WIDTH, HEIGHT)

\* the backend is called in this step
BackendIsCalled == submitted' # submitted

(* C22, as it is stated: the arguments handed to the backend have no       *)
(* _warnings key, and each warning has been emitted as a status event      *)
(* before the backend is called.  A pipe that was handed no event emitter  *)
(* emits no status event at all.                                           *)
C22_WarningsAreEmittedBeforeBackend ==
    [][BackendIsCalled =>
           /\ "_warnings" \notin DOMAIN arguments
           /\ AllWarningsEmitted(FindIter(prompt, 1),
                                 Refused(FindIter(prompt, 1), model_config,
                                         WIDTH, HEIGHT))]_vars

(* C22, amended: the arguments handed to the backend have no _warnings     *)
(* key, and when pipe was handed an event emitter, each warning has been   *)
(* emitted as a status event before the backend is called.                 *)
C22_WarningsAreEmittedToAnEmitterBeforeBackend ==
    [][BackendIsCalled =>
           /\ "_warnings" \notin DOMAIN arguments
           /\ emitter # "None" =>
                  AllWarningsEmitted(FindIter(prompt, 1),
                                     Refused(FindIter(prompt, 1), model_config,
                                             WIDTH, HEIGHT))]_vars

\* the backend was called for a prompt with a warning, which an emitter
\* was handed, and the arguments have no _warnings key
C22_Witness ==
    /\ submitted # <<>>
    /\ emitter # "None"
    /\ Len(EmittedWarnings) >= 1
    /\ "_warnings" \notin DOMAIN submitted[1].arguments
    /\ "num_inference_steps" \in DOMAIN submitted[1].arguments

\* after the i-th event an emitter was handed, one is handed an event with
\* done=True
IsFollowedByDone(i) == \E j \in DOMAIN events : j > i /\ events[j].done

(* C23: whenever pipe emits a status event with done=False, it emits a     *)
(* status event with done=True before it finishes, on every path.          *)
(* With a warning and without a FAL_KEY it does not: for the prompt        *)
(* "a --x" it emits the warning with done=False, yields "Error: FAL_KEY    *)
(* not set in valves." and returns.                                        *)
C23_EveryStatusIsFollowedByDone ==
    Finished =>
        \A i \in DOMAIN events : ~events[i].done => IsFollowedByDone(i)

\* the emitter that was handed to the call an event is of
EmitterOf(event) ==
    IF event.of = "pipe" THEN event_emitter ELSE other.event_emitter

(* C24: when two calls of pipe on the same Pipe interleave at their await  *)
(* points, every status event emitted for a call is handed to the event    *)
(* emitter that was passed to that call, never to the emitter of the other *)
(* call.  Both calls emit through self.emitter, which the later call has   *)
(* overwritten: the first call's event with done=True is handed to the     *)
(* emitter of the second.                                                  *)
C24_EventsGoToTheirOwnEmitter ==
    \A i \in DOMAIN events : events[i].to = EmitterOf(events[i])

\* the requests deploy_function has sent for the f-th function file
PostedFor(f) == {i \in DOMAIN posted : posted[i].file = f}

\* extract_function_metadata has something to return for the file
IsExtractable(file) == file.readable /\ file.has_class

\* the function files that deploy_all has gone through
Processed == 1..processed

(* C25: deploy_function sends exactly one request that writes to the host  *)
(* for a file whose metadata can be extracted, an update when the function *)
(* id is among the existing functions and a create otherwise; a file with  *)
(* no class definition causes no such request and is counted as failed;    *)
(* when deploy_all returns, total = success + failed.                      *)
C25_OneWritePerFunctionFile ==
    /\ \A f \in Processed :
           IF IsExtractable(python_files[f])
           THEN /\ Cardinality(PostedFor(f)) = 1
                /\ \A i \in PostedFor(f) :
                       posted[i].kind = IF posted[i].id \in existing_functions
                                        THEN "update" ELSE "create"
           ELSE PostedFor(f) = {}
    /\ stats.failed >=
           Cardinality({f \in Processed : ~IsExtractable(python_files[f])})
    /\ pc = "deployed" => stats.total = stats.success + stats.failed

\* deploy_all has returned after an update, a create and a file that has
\* no class definition
C25_Witness ==
    /\ pc = "deployed"
    /\ processed = 3
    /\ \E i, j \in DOMAIN posted :
           /\ posted[i].kind = "update" /\ posted[i].answered
           /\ posted[j].kind = "create" /\ posted[j].answered
    /\ \E f \in Processed :
           python_files[f].readable /\ ~python_files[f].has_class
    /\ stats = [total |-> 3, success |-> 2, failed |-> 1]

(* C26: within one run of deploy_all a create is sent at most once for a   *)
(* function id.  The existing functions are fetched once, before the       *)
(* first file: for a-b.py and a_b.py, which both have the id a_b, the      *)
(* second file is sent as a create as well.                                *)
C26_CreateIsSentAtMostOncePerId ==
    \A i, j \in DOMAIN posted :
        (i # j /\ posted[i].kind = "create" /\ posted[j].kind = "create")
            => posted[i].id # posted[j].id

====
